---- MODULE Spec2Model ----
(***************************************************************************)
(* A model of go-db-engine: a skip-list memtable with a write-ahead log,   *)
(* SSTable files written by a background compaction loop, and the          *)
(* Database facade (Write / Get / Delete) on top of them.                  *)
(*                                                                         *)
(* Go values are represented as follows.                                   *)
(*   string   a sequence of bytes (naturals), compared bytewise            *)
(*   []byte   a record [nil, b]: Go tells a nil slice from an empty one,   *)
(*            and Database.Get tests "value != nil"                        *)
(*   *node    an index into the skip-list's node table (0 is the nil       *)
(*            pointer)                                                     *)
(*   error    a string naming the error kind, "nil" for no error           *)
(***************************************************************************)
EXTENDS Integers, Sequences, FiniteSets, TLC

(***************************************************************************)
(* Bounds of the model.                                                    *)
(***************************************************************************)
\* the number of Write / Delete calls the foreground thread makes
MaxOps == 3
\* the number of injected I/O failures (WAL write, truncate, stat, SSTable write)
MaxFaults == 1
\* the largest level randomLevel draws
MaxLvl == 1
\* Database setting MemtableSizeByte, scaled down
MemtableSizeByte == 2
\* Database setting SStableDatablockSizeByte, scaled down
SStableDatablockSizeByte == 2
\* the number of Append calls of the single-WAL specification
MaxAppends == 3
\* the most bytes of the data that a failing Write call of a WAL append of
\* the database writes
MaxPartial == 1
\* the most entries of the index taken on its own
MaxEntries == 3
\* uint32 arithmetic wraps at 2^32 in the program; TLC's integers end at
\* 2^31 - 1, so the model wraps at this modulus
\* the levels randomLevel draws for a skip list on its own
MaxSkipLvl == 3

\* the number of memtables in the queue given to Get as an input
MaxBlockSize == 3

MaxQueued == 2

Uint32Modulus == 1024

(***************************************************************************)
(* Bytes and strings.                                                      *)
(***************************************************************************)
NilBytes == [nil |-> TRUE, b |-> <<>>]

Bytes(s) == [nil |-> FALSE, b |-> s]

\* len(x) of a []byte: the nil slice has length 0
BytesLen(v) == Len(v.b)

\* bytewise lexicographic order of Go strings: a < b
RECURSIVE StrLess(_, _)
StrLess(a, b) ==
    IF Len(b) = 0 THEN FALSE
    ELSE IF Len(a) = 0 THEN TRUE
    ELSE IF Head(a) # Head(b) THEN Head(a) < Head(b)
    ELSE StrLess(Tail(a), Tail(b))

\* a >= b
StrGeq(a, b) == ~StrLess(a, b)

\* a <= b
StrLeq(a, b) == ~StrLess(b, a)

\* the keys and values the foreground thread uses
KeyA == <<97>>

KeyB == <<98>>

\* "ab" and "c"
KeyAB == <<97, 98>>

KeyC == <<99>>

\* the keys of the skipList and of the index taken on their own
MoreKeys == {KeyA, KeyAB, KeyB, KeyC}

Keys == {KeyA, KeyB}

EmptyValue == Bytes(<<>>)

ValueV == Bytes(<<118>>)

Values == {EmptyValue, ValueV}

\* []byte("tombstone")
tombstoneVal == Bytes(<<116, 111, 109, 98, 115, 116, 111, 110, 101>>)

(***************************************************************************)
(* Skip-list.  nodes[1] is the sentinel head; forwardNodeAtLevel is a Go   *)
(* map from level to *node, here a function whose domain is the set of     *)
(* levels present in the map.                                              *)
(***************************************************************************)
NilNode == 0

head == 1

newNode(key, value) ==
    [key |-> key, value |-> value, forwardNodeAtLevel |-> <<>>]

newSkipList ==
    [nodes |-> <<newNode(<<>>, Bytes(<<>>))>>, height |-> 1, size |-> 0]

\* the levels randomLevel can return (the geometric tail is cut at MaxLvl)
randomLevel == 0..MaxLvl

\* the loop of search, from curNode at curLevel
RECURSIVE searchLoop(_, _, _, _)
searchLoop(s, key, curNode, curLevel) ==
    LET fwd == s.nodes[curNode].forwardNodeAtLevel
    IN  IF curLevel \notin DOMAIN fwd
        THEN IF curLevel = 0 THEN NilNode
             ELSE searchLoop(s, key, curNode, curLevel - 1)
        ELSE LET nextNode == fwd[curLevel]
             IN  IF StrGeq(s.nodes[nextNode].key, key)
                 THEN IF s.nodes[nextNode].key = key THEN nextNode
                      ELSE IF curLevel = 0 THEN NilNode
                      ELSE searchLoop(s, key, curNode, curLevel - 1)
                 ELSE searchLoop(s, key, nextNode, curLevel)

\* search that looks at the top level only and never descends
search_withoutDescent(s, key) ==
    LET fwd == s.nodes[head].forwardNodeAtLevel
        top == s.height - 1
    IN  IF s.nodes[head].key = key THEN head
        ELSE IF top \in DOMAIN fwd /\ s.nodes[fwd[top]].key = key THEN fwd[top]
        ELSE NilNode

search(s, key) ==
    IF s.nodes[head].key = key THEN head
    ELSE searchLoop(s, key, head, s.height - 1)

\* insertNewNode with lvl0 the level randomLevel drew; updateAnchors[i + 1] is
\* the Go slice's element i
insertNewNode(s, key, value, updateAnchors0, lvl0) ==
    LET grow == lvl0 >= s.height
        lvl == IF grow THEN s.height + 1 ELSE lvl0
        updateAnchors ==
            IF grow THEN updateAnchors0 \o [i \in 1..(lvl - s.height + 1) |-> head]
            ELSE updateAnchors0
        height == IF grow THEN lvl + 1 ELSE s.height
        new == Len(s.nodes) + 1
        linked == {l \in 0..(Len(updateAnchors) - 1) : l <= lvl}
        anchor(l) == updateAnchors[l + 1]
        oldNext(l) ==
            IF l \in DOMAIN s.nodes[anchor(l)].forwardNodeAtLevel
            THEN s.nodes[anchor(l)].forwardNodeAtLevel[l] ELSE NilNode
        newFwd == [l \in {l \in linked : oldNext(l) # NilNode} |-> oldNext(l)]
        relink(i) ==
            LET f == s.nodes[i].forwardNodeAtLevel
                mine == {l \in linked : anchor(l) = i}
            IN  [l \in (DOMAIN f) \cup mine |-> IF l \in mine THEN new ELSE f[l]]
    IN  [nodes |-> [i \in 1..new |->
                      IF i = new
                      THEN [key |-> key, value |-> value, forwardNodeAtLevel |-> newFwd]
                      ELSE [s.nodes[i] EXCEPT !.forwardNodeAtLevel = relink(i)]],
         height |-> height,
         size |-> s.size + 1]

\* the loop of upsert with the head as the anchor of every level above 0
RECURSIVE upsertLoop_headAnchors(_, _, _, _, _, _, _)
upsertLoop_headAnchors(s, key, value, lvl, curNode, curLevel, updateAnchors) ==
    LET fwd == s.nodes[curNode].forwardNodeAtLevel
        anchors == [updateAnchors EXCEPT
                       ![curLevel + 1] = IF curLevel = 0 THEN curNode ELSE head]
    IN  IF curLevel \notin DOMAIN fwd
        THEN IF curLevel = 0 THEN insertNewNode(s, key, value, anchors, lvl)
             ELSE upsertLoop_headAnchors(s, key, value, lvl, curNode, curLevel - 1, anchors)
        ELSE LET nextNode == fwd[curLevel]
             IN  IF StrGeq(s.nodes[nextNode].key, key)
                 THEN IF s.nodes[nextNode].key = key
                      THEN [s EXCEPT !.nodes[nextNode].value = value]
                      ELSE IF curLevel = 0
                      THEN insertNewNode(s, key, value, anchors, lvl)
                      ELSE upsertLoop_headAnchors(s, key, value, lvl, curNode,
                                                  curLevel - 1, anchors)
                 ELSE upsertLoop_headAnchors(s, key, value, lvl, nextNode, curLevel,
                                             updateAnchors)

\* the loop of upsert, from curNode at curLevel
RECURSIVE upsertLoop(_, _, _, _, _, _, _)
upsertLoop(s, key, value, lvl, curNode, curLevel, updateAnchors) ==
    LET fwd == s.nodes[curNode].forwardNodeAtLevel
        anchors == [updateAnchors EXCEPT ![curLevel + 1] = curNode]
    IN  IF curLevel \notin DOMAIN fwd
        THEN IF curLevel = 0 THEN insertNewNode(s, key, value, anchors, lvl)
             ELSE upsertLoop(s, key, value, lvl, curNode, curLevel - 1, anchors)
        ELSE LET nextNode == fwd[curLevel]
             IN  IF StrGeq(s.nodes[nextNode].key, key)
                 THEN IF s.nodes[nextNode].key = key
                      THEN [s EXCEPT !.nodes[nextNode].value = value]
                      ELSE IF curLevel = 0
                      THEN insertNewNode(s, key, value, anchors, lvl)
                      ELSE upsertLoop(s, key, value, lvl, curNode, curLevel - 1, anchors)
                 ELSE upsertLoop(s, key, value, lvl, nextNode, curLevel, updateAnchors)

\* upsert that links the new node right after the head, without a search
upsert_afterHead(s, key, value, lvl) ==
    insertNewNode(s, key, value, [i \in 1..s.height |-> head], lvl)

\* upsert that counts every call in size, also when the key is found
upsert_countsUpdate(s, key, value, lvl) ==
    [upsertLoop(s, key, value, lvl, head, s.height - 1,
                [i \in 1..s.height |-> NilNode]) EXCEPT !.size = s.size + 1]

\* upsert that leaves size as it was, also when a node is inserted
upsert_sizeNotCounted(s, key, value, lvl) ==
    [upsertLoop(s, key, value, lvl, head, s.height - 1,
                [i \in 1..s.height |-> NilNode]) EXCEPT !.size = s.size]

upsert(s, key, value, lvl) ==
    upsertLoop(s, key, value, lvl, head, s.height - 1,
               [i \in 1..s.height |-> NilNode])

(***************************************************************************)
(* Serialized data.  A []byte that holds serialized data is a record       *)
(*   [kind, body, len, trail]                                              *)
(* kind and body say what was serialized, len is the number of bytes of    *)
(* the serialization and trail the number of further bytes the slice holds *)
(* after it (0 for the output of an encoder).                              *)
(***************************************************************************)
Blob(kind, body, len) == [kind |-> kind, body |-> body, len |-> len, trail |-> 0]

\* len(x) of a slice holding serialized data
BlobLen(x) == x.len + x.trail

\* the number of bytes binary.PutUvarint writes for n
RECURSIVE UvarintLen(_)
UvarintLen(n) == IF n < 128 THEN 1 ELSE 1 + UvarintLen(n \div 128)

\* protobuf wire size of a string / bytes / message field of n bytes; a
\* scalar field holding the zero value is not written
PbLenField(n) == IF n = 0 THEN 0 ELSE 1 + UvarintLen(n) + n

\* protobuf wire size of an element of n bytes of a repeated message field
PbRepeatedField(n) == 1 + UvarintLen(n) + n

\* protobuf wire size of a varint field
PbVarintField(x) == IF x = 0 THEN 0 ELSE 1 + UvarintLen(x)

\* a bytes field read back by proto.Unmarshal: a field of zero length is not
\* on the wire and is left nil
PbBytes(b) == IF Len(b) = 0 THEN NilBytes ELSE Bytes(b)

(***************************************************************************)
(* Files.  A file is a sequence of segments in file order, one per write   *)
(* call sequence that produced it:                                         *)
(*   [raw, written, framed]                                                *)
(* raw is the data, framed says that a varint length precedes it, written  *)
(* is the number of bytes of the segment that are in the file (a segment   *)
(* is complete when written equals its length).                            *)
(***************************************************************************)
SegLen(raw, framed) == (IF framed THEN UvarintLen(BlobLen(raw)) ELSE 0) + BlobLen(raw)

RECURSIVE FileSize(_)
FileSize(f) == IF f = <<>> THEN 0 ELSE f[Len(f)].written + FileSize(SubSeq(f, 1, Len(f) - 1))

\* File.Truncate(size), size not above the file's size
RECURSIVE Truncate(_, _)
Truncate(f, size) ==
    IF FileSize(f) <= size THEN f
    ELSE LET rest == SubSeq(f, 1, Len(f) - 1)
         IN  IF FileSize(rest) >= size THEN Truncate(rest, size)
             ELSE Append(rest, [f[Len(f)] EXCEPT !.written = size - FileSize(rest)])

\* What the two Write calls of WriteDataWithVarintSizePrefix can return for
\* raw: n1 bytes and error e1 for the length, n2 and e2 for the data.  The
\* writer is an os.File: Write returns an error exactly when it wrote less
\* than len(p), and the n bytes it reports are the bytes in the file.
WriteOutcomes(raw) ==
    {io \in [n1 : 0..UvarintLen(BlobLen(raw)), e1 : {"nil", "errDeviceFull"},
             n2 : 0..BlobLen(raw), e2 : {"nil", "errDeviceFull"}] :
        /\ io.n1 < UvarintLen(BlobLen(raw)) <=> io.e1 # "nil"
        /\ io.n2 < BlobLen(raw) <=> io.e2 # "nil"
        /\ io.e1 # "nil" => (io.n2 = 0 /\ io.e2 = "errDeviceFull")}

\* both Write calls succeed
WriteOk(raw) ==
    [n1 |-> UvarintLen(BlobLen(raw)), e1 |-> "nil", n2 |-> BlobLen(raw), e2 |-> "nil"]

\* WriteDataWithVarintSizePrefix(w, raw) on the file f opened for append
WriteDataWithVarintSizePrefix(f, raw, io) ==
    LET written == IF io.e1 # "nil" THEN io.n1 ELSE io.n1 + io.n2
        err == IF io.e1 # "nil" THEN io.e1 ELSE io.e2
    IN  [file |-> IF written = 0 THEN f
                  ELSE Append(f, [raw |-> raw, written |-> written, framed |-> TRUE]),
         written |-> written,
         err |-> err]

(***************************************************************************)
(* Write-ahead log.  A BasicWal is [file, seq]: the content of its file    *)
(* and the sequence number of the latest written log.                      *)
(***************************************************************************)
OP_READ_FILE == "OP_READ_FILE"

OP_APPEND == "OP_APPEND"

OP_ROLLBACK == "OP_ROLLBACK"

OP_DELETE == "OP_DELETE"

NoError == [Op |-> "nil", BeforeLastSeq |-> 0, Err |-> "nil"]

WalError(op, seq, err) == [Op |-> op, BeforeLastSeq |-> seq, Err |-> err]

\* uint32 arithmetic
Uint32(n) == n % Uint32Modulus

\* BasicWalLog.Serialize
Serialize(l) ==
    Blob("WalLog", [Seq |-> l.seq, Data |-> l.data],
         PbVarintField(l.seq) + PbLenField(BlobLen(l.data)))

\* the outcomes of the system calls of one Append of log to wal: Stat,
\* the two Write calls, Truncate (a call that is not made has the outcome
\* of success)
AppendOutcomes(wal, log) ==
    LET raw == Serialize([seq |-> Uint32(wal.seq + 1), data |-> log])
    IN  {io \in [stat : {"nil", "EIO"}, w : WriteOutcomes(raw), trunc : {"nil", "EIO"}] :
            /\ io.stat # "nil" => io.w = WriteOk(raw)
            /\ (io.w.e1 = "nil" /\ io.w.e2 = "nil") => io.trunc = "nil"}

\* the outcomes of an Append in which a system call fails
AppendFaults(wal, log) ==
    {io \in AppendOutcomes(wal, log) :
        io.stat # "nil" \/ io.w.e1 # "nil" \/ io.w.e2 # "nil"}

\* the outcome of an Append in which no system call fails
AppendOk(wal, log) ==
    LET raw == Serialize([seq |-> Uint32(wal.seq + 1), data |-> log])
    IN  [stat |-> "nil", w |-> WriteOk(raw), trunc |-> "nil"]

\* rollback without the Truncate
rollback_withoutTruncate(wal, size, io) ==
    IF io.trunc # "nil"
    THEN [wal |-> wal, err |-> WalError(OP_ROLLBACK, wal.seq, io.trunc)]
    ELSE [wal |-> wal, err |-> NoError]

\* BasicWal.rollback(size)
rollback(wal, size, io) ==
    IF io.trunc # "nil"
    THEN [wal |-> wal, err |-> WalError(OP_ROLLBACK, wal.seq, io.trunc)]
    ELSE [wal |-> [wal EXCEPT !.file = Truncate(wal.file, size)], err |-> NoError]

\* Append with wal.seq set before the write, whatever the write returns
Append_seqBeforeWrite(wal, log, io) ==
    IF io.stat # "nil"
    THEN [wal |-> wal, err |-> WalError(OP_READ_FILE, wal.seq, io.stat)]
    ELSE LET oldSize == FileSize(wal.file)
             newLog == [seq |-> Uint32(wal.seq + 1), data |-> log]
             w == WriteDataWithVarintSizePrefix(wal.file, Serialize(newLog), io.w)
             wrote == [file |-> w.file, seq |-> newLog.seq]
         IN  IF w.err # "nil"
             THEN LET rb == rollback(wrote, oldSize, io)
                  IN  IF rb.err # NoError THEN rb
                      ELSE [wal |-> rb.wal, err |-> WalError(OP_APPEND, wal.seq, w.err)]
             ELSE [wal |-> wrote, err |-> NoError]

\* Append with the error of rollback dropped
Append_dropsRollbackError(wal, log, io) ==
    IF io.stat # "nil"
    THEN [wal |-> wal, err |-> WalError(OP_READ_FILE, wal.seq, io.stat)]
    ELSE LET oldSize == FileSize(wal.file)
             newLog == [seq |-> Uint32(wal.seq + 1), data |-> log]
             w == WriteDataWithVarintSizePrefix(wal.file, Serialize(newLog), io.w)
             wrote == [wal EXCEPT !.file = w.file]
         IN  IF w.err # "nil"
             THEN [wal |-> rollback(wrote, oldSize, io).wal,
                   err |-> WalError(OP_APPEND, wal.seq, w.err)]
             ELSE [wal |-> [wrote EXCEPT !.seq = newLog.seq], err |-> NoError]

\* BasicWal.Append(log) under the outcome io of its system calls
BasicWal_Append(wal, log, io) ==
    IF io.stat # "nil"
    THEN [wal |-> wal, err |-> WalError(OP_READ_FILE, wal.seq, io.stat)]
    ELSE LET oldSize == FileSize(wal.file)
             newLog == [seq |-> Uint32(wal.seq + 1), data |-> log]
             logBytes == Serialize(newLog)
             w == WriteDataWithVarintSizePrefix(wal.file, logBytes, io.w)
             wrote == [wal EXCEPT !.file = w.file]
         IN  IF w.err # "nil"
             THEN LET rb == rollback(wrote, oldSize, io)
                  IN  IF rb.err # NoError THEN rb
                      ELSE [wal |-> rb.wal, err |-> WalError(OP_APPEND, wal.seq, w.err)]
             ELSE [wal |-> [wrote EXCEPT !.seq = newLog.seq], err |-> NoError]

NewBasicWal == [file |-> <<>>, seq |-> 0]

(***************************************************************************)
(* Memtable.  A SkipListMemTable is [s, wal, TotalSizeBytes, name]; name   *)
(* is the name of its WAL file in the wal directory (the nanosecond time   *)
(* stamp of its creation, here the number of the memtable).                *)
(***************************************************************************)
\* NewBasicMemTable with a WAL that is not the file created under name
NewBasicMemTable_otherWalFile(name) ==
    [s |-> newSkipList, wal |-> NewBasicWal, TotalSizeBytes |-> 0, name |-> name + 1]

NewBasicMemTable(name) ==
    [s |-> newSkipList, wal |-> NewBasicWal, TotalSizeBytes |-> 0, name |-> name]

SkipListMemTable_Get(m, key) ==
    LET node == search(m.s, key)
    IN  IF node # NilNode THEN m.s.nodes[node].value ELSE NilBytes

\* keyValueToWalLogBytes: proto.Marshal of pb.MemtableKeyValue{Key, Value}
keyValueToWalLogBytes(key, value) ==
    Blob("MemtableKeyValue", [Key |-> key, Value |-> value.b],
         PbLenField(Len(key)) + PbLenField(BytesLen(value)))

\* SkipListMemTable.Write with the upsert done before the WAL append
Write_upsertBeforeAppend(m, key, value, io, lvl) ==
    LET a == BasicWal_Append(m.wal, keyValueToWalLogBytes(key, value), io)
        written == [m EXCEPT !.wal = a.wal,
                             !.s = upsert(m.s, key, value, lvl),
                             !.TotalSizeBytes = Uint32(@ + Uint32(Len(key) + BytesLen(value)))]
    IN  [mem |-> written, err |-> a.err]

\* SkipListMemTable.Write under the outcome io of the system calls of the
\* WAL append and the level lvl that randomLevel draws
SkipListMemTable_Write(m, key, value, io, lvl) ==
    LET walLog == keyValueToWalLogBytes(key, value)
        a == BasicWal_Append(m.wal, walLog, io)
        sizeWritten == Len(key) + BytesLen(value)
    IN  IF a.err # NoError THEN [mem |-> [m EXCEPT !.wal = a.wal], err |-> a.err]
        ELSE [mem |-> [m EXCEPT !.wal = a.wal,
                                !.s = upsert(m.s, key, value, lvl),
                                !.TotalSizeBytes = Uint32(@ + Uint32(sizeWritten))],
              err |-> NoError]

\* SizeBytes that returns the number of keys of the memtable
SizeBytes_countsKeys(m) == m.s.size

SizeBytes(m) == m.TotalSizeBytes

\* SkipListMemTable.Delete that adds the size of the tombstone record to
\* TotalSizeBytes, as Write does
Delete_countsBytes(m, key, io, lvl) ==
    SkipListMemTable_Write(m, key, tombstoneVal, io, lvl)

\* SkipListMemTable.Delete that puts the tombstone into the skip list
\* whatever the WAL append returns
Delete_upsertOnFailure(m, key, io, lvl) ==
    LET a == BasicWal_Append(m.wal, keyValueToWalLogBytes(key, tombstoneVal), io)
    IN  [mem |-> [m EXCEPT !.wal = a.wal, !.s = upsert(m.s, key, tombstoneVal, lvl)],
         err |-> a.err]

\* SkipListMemTable.Delete
SkipListMemTable_Delete(m, key, io, lvl) ==
    LET walLog == keyValueToWalLogBytes(key, tombstoneVal)
        a == BasicWal_Append(m.wal, walLog, io)
    IN  IF a.err # NoError THEN [mem |-> [m EXCEPT !.wal = a.wal], err |-> a.err]
        ELSE [mem |-> [m EXCEPT !.wal = a.wal,
                                !.s = upsert(m.s, key, tombstoneVal, lvl)],
              err |-> NoError]

\* the loop of GetAll: the records from node on, along level 0
RECURSIVE GetAllLoop(_, _)
GetAllLoop(s, node) ==
    IF node = NilNode THEN <<>>
    ELSE LET fwd == s.nodes[node].forwardNodeAtLevel
         IN  <<[Key |-> s.nodes[node].key, Value |-> s.nodes[node].value]>>
             \o GetAllLoop(s, IF 0 \in DOMAIN fwd THEN fwd[0] ELSE NilNode)

\* SkipListMemTable.GetAll
GetAll(m) ==
    LET fwd == m.s.nodes[head].forwardNodeAtLevel
    IN  GetAllLoop(m.s, IF 0 \in DOMAIN fwd THEN fwd[0] ELSE NilNode)

(***************************************************************************)
(* SSTable index.  entries is the ordered list of index entries; meta maps *)
(* a start key to its entry, here to the entry's place in entries.         *)
(***************************************************************************)
NewBasicSSTableIndex == [entries |-> <<>>, meta |-> <<>>]

\* update that appends a new entry whether or not the start key is known
update_alwaysAppends(idx, startKey, endKey, offset, size) ==
    LET newEntry == [startKey |-> startKey, endKey |-> endKey,
                     offset |-> offset, size |-> size]
    IN  [entries |-> Append(idx.entries, newEntry),
         meta |-> [k \in (DOMAIN idx.meta) \cup {startKey} |->
                     IF k = startKey THEN Len(idx.entries) + 1 ELSE idx.meta[k]]]

\* BasicSSTableIndex.update
update(idx, startKey, endKey, offset, size) ==
    IF startKey \in DOMAIN idx.meta
    THEN [idx EXCEPT !.entries[idx.meta[startKey]] =
                        [@ EXCEPT !.endKey = endKey, !.offset = offset, !.size = size]]
    ELSE LET newEntry == [startKey |-> startKey, endKey |-> endKey,
                          offset |-> offset, size |-> size]
         IN  [entries |-> Append(idx.entries, newEntry),
              meta |-> [k \in (DOMAIN idx.meta) \cup {startKey} |->
                          IF k = startKey THEN Len(idx.entries) + 1 ELSE idx.meta[k]]]

\* the loop of GetOffset with the end key of an entry outside its range
RECURSIVE GetOffsetLoop_endExclusive(_, _, _)
GetOffsetLoop_endExclusive(index, key, i) ==
    IF i > Len(index.entries) THEN [offset |-> 0, size |-> 0, exist |-> FALSE]
    ELSE LET entry == index.entries[i]
         IN  IF StrGeq(key, entry.startKey) /\ StrLess(key, entry.endKey)
             THEN [offset |-> entry.offset, size |-> entry.size, exist |-> TRUE]
             ELSE IF StrLeq(key, entry.startKey)
             THEN [offset |-> 0, size |-> 0, exist |-> FALSE]
             ELSE GetOffsetLoop_endExclusive(index, key, i + 1)

\* GetOffset that finds start keys only
GetOffset_startKeysOnly(index, key) ==
    IF key \notin DOMAIN index.meta THEN [offset |-> 0, size |-> 0, exist |-> FALSE]
    ELSE LET entry == index.entries[index.meta[key]]
         IN  [offset |-> entry.offset, size |-> entry.size, exist |-> TRUE]

\* the loop of GetOffset over entries, from entry i on
RECURSIVE GetOffsetLoop(_, _, _)
GetOffsetLoop(idx, key, i) ==
    IF i > Len(idx.entries) THEN [offset |-> 0, size |-> 0, exist |-> FALSE]
    ELSE LET entry == idx.entries[i]
         IN  IF StrGeq(key, entry.startKey) /\ StrLeq(key, entry.endKey)
             THEN [offset |-> entry.offset, size |-> entry.size, exist |-> TRUE]
             ELSE IF StrLeq(key, entry.startKey)
             THEN [offset |-> 0, size |-> 0, exist |-> FALSE]
             ELSE GetOffsetLoop(idx, key, i + 1)

\* BasicSSTableIndex.GetOffset
GetOffset(idx, key) ==
    IF key \notin DOMAIN idx.meta THEN GetOffsetLoop(idx, key, 1)
    ELSE LET entry == idx.entries[idx.meta[key]]
         IN  [offset |-> entry.offset, size |-> entry.size, exist |-> TRUE]

\* the sum of f[i].len over a sequence of records with a len field
RECURSIVE SumLen(_)
SumLen(q) == IF q = <<>> THEN 0 ELSE q[1].len + SumLen(Tail(q))

\* BasicSSTableIndex.Serialize: proto.Marshal of pb.SSTableIndex
BasicSSTableIndex_Serialize(idx) ==
    LET size(e) == PbLenField(Len(e.startKey)) + PbLenField(Len(e.endKey))
                   + PbVarintField(e.offset) + PbVarintField(e.size)
    IN  Blob("SSTableIndex", idx.entries,
             SumLen([i \in 1..Len(idx.entries) |->
                        [len |-> PbRepeatedField(size(idx.entries[i]))]]))

(***************************************************************************)
(* SSTable writer.                                                         *)
(***************************************************************************)
\* binary.MaxVarintLen64
MaxVarintLen64 == 10

\* the 10-byte data size header holding binary.PutUvarint of dataSize
SizeHeader(dataSize) ==
    [raw |-> Blob("sizeBuf", dataSize, MaxVarintLen64),
     written |-> MaxVarintLen64, framed |-> FALSE]

\* proto.Marshal of pb.SSTableBlock: the entries as they are on the wire
MarshalBlock(block) ==
    LET size(e) == PbLenField(Len(e.Key)) + PbLenField(BytesLen(e.Value))
    IN  Blob("SSTableBlock",
             [i \in 1..Len(block) |-> [Key |-> block[i].Key, Value |-> block[i].Value.b]],
             SumLen([i \in 1..Len(block) |-> [len |-> PbRepeatedField(size(block[i]))]]))

\* compress: snappy.Encode.  The length is that of the encoding of raw as
\* one literal.
compress(raw) ==
    LET n == BlobLen(raw)
        tag == IF n = 0 THEN 0 ELSE IF n <= 60 THEN 1 ELSE IF n <= 256 THEN 2 ELSE 3
    IN  Blob("snappy", raw, UvarintLen(n) + tag + n)

\* serializeBlock
serializeBlock(block) == compress(MarshalBlock(block))

\* gatherBlock that closes a block only when the accumulated size is above
\* the block size
RECURSIVE gatherBlock_closesAbove(_, _, _, _, _)
gatherBlock_closesAbove(records, i, block, acc, BlockSize) ==
    IF i > Len(records)
    THEN [block |-> block, next |-> i, done |-> ~(acc > 0)]
    ELSE LET record == records[i]
             data == Append(block, [Key |-> record.Key, Value |-> record.Value])
             size == acc + Len(record.Key) + BytesLen(record.Value)
         IN  IF size > BlockSize
             THEN [block |-> data, next |-> i + 1, done |-> FALSE]
             ELSE gatherBlock_closesAbove(records, i + 1, data, size, BlockSize)

\* The loop of writeDataBlocksAndUpdateIndex from record i with the records
\* of block gathered and accBlockKeyValueSize = acc, up to the next call of
\* writeBlock: the block to write and the record the loop goes on with.
\* done: the loop and the final test found nothing more to write.
RECURSIVE gatherBlock(_, _, _, _, _)
gatherBlock(records, i, block, acc, BlockSize) ==
    IF i > Len(records)
    THEN [block |-> block, next |-> i, done |-> ~(acc > 0)]
    ELSE LET record == records[i]
             data == Append(block, [Key |-> record.Key, Value |-> record.Value])
             size == acc + Len(record.Key) + BytesLen(record.Value)
         IN  IF size >= BlockSize
             THEN [block |-> data, next |-> i + 1, done |-> FALSE]
             ELSE gatherBlock(records, i + 1, data, size, BlockSize)

\* writeNextBlock with the offset of the block counted from the end of the
\* header
writeNextBlock_offsetWithoutHeader(w) ==
    LET g == gatherBlock(w.records, w.next, <<>>, 0, w.BlockSize)
        startKey == g.block[1].Key
        endKey == g.block[Len(g.block)].Key
        writeBlock == {WriteDataWithVarintSizePrefix(w.file, raw, WriteOk(raw)) :
                          raw \in {serializeBlock(g.block)}}
    IN  CHOOSE w2 \in {[w EXCEPT !.file = wr.file,
                                 !.idx = update(w.idx, startKey, endKey,
                                                w.totalDataSize, wr.written),
                                 !.totalDataSize = @ + wr.written,
                                 !.next = g.next] : wr \in writeBlock} : TRUE

\* One round of writeDataBlocksAndUpdateIndex: writeBlock of the next block
\* and the update of the index.  w is the writer [file, idx, BlockSize,
\* records, next, totalDataSize]; file is the content of its file.
\* The block is serialized once and written once: raw and wr are bound as
\* values.
writeNextBlock(w) ==
    LET g == gatherBlock(w.records, w.next, <<>>, 0, w.BlockSize)
        startKey == g.block[1].Key
        endKey == g.block[Len(g.block)].Key
        writeBlock == {WriteDataWithVarintSizePrefix(w.file, raw, WriteOk(raw)) :
                          raw \in {serializeBlock(g.block)}}
    IN  CHOOSE w2 \in {[w EXCEPT !.file = wr.file,
                                 !.idx = update(w.idx, startKey, endKey,
                                                MaxVarintLen64 + w.totalDataSize,
                                                wr.written),
                                 !.totalDataSize = @ + wr.written,
                                 !.next = g.next] : wr \in writeBlock} : TRUE

\* whether writeDataBlocksAndUpdateIndex has a block left to write
moreBlocks(w) == ~gatherBlock(w.records, w.next, <<>>, 0, w.BlockSize).done

\* writeIndex
writeIndex(w) ==
    LET data == BasicSSTableIndex_Serialize(w.idx)
    IN  [w EXCEPT !.file = WriteDataWithVarintSizePrefix(w.file, data, WriteOk(data)).file]

\* NewBasicSSTableWriter followed by the start of Dump(m): m.GetAll()
NewBasicSSTableWriter(blockSize, m) ==
    [file |-> <<>>, idx |-> NewBasicSSTableIndex, BlockSize |-> blockSize,
     records |-> GetAll(m), next |-> 1, totalDataSize |-> 0]

(***************************************************************************)
(* SSTable reader.                                                         *)
(***************************************************************************)
OP_SSTABLE_LOAD_INDEX == "OP_SSTABLE_LOAD_INDEX"

OP_SSTABLE_LOAD_DATABLOCK == "OP_SSTABLE_LOAD_DATABLOCK"

\* the place in f of the segment that starts at byte offset pos, 0 if none
RECURSIVE SegAt(_, _)
SegAt(f, pos) ==
    IF f = <<>> THEN 0
    ELSE LET rest == SubSeq(f, 1, Len(f) - 1)
         IN  IF FileSize(rest) = pos THEN Len(f) ELSE SegAt(rest, pos)

\* a nil buffer, and a buffer of n bytes, passed to ReadDataWithVarintPrefix
NilBuf == [nil |-> TRUE, len |-> 0]

Buf(n) == [nil |-> FALSE, len |-> n]

\* ReadDataWithVarintPrefix(r, buf), r reading file f from offset pos on:
\* the buffer returned is buf unless buf is nil or shorter than the length
\* read, and then holds the data followed by the rest of buf
ReadDataWithVarintPrefix(f, pos, buf) ==
    LET i == SegAt(f, pos)
    IN  IF i = 0 \/ ~f[i].framed \/ f[i].written < UvarintLen(BlobLen(f[i].raw))
        THEN [buf |-> NilBuf, err |-> "EOF"]
        ELSE LET l == BlobLen(f[i].raw)
                 \* r.Read(buf) fills what the source has; its result is dropped
                 data == IF f[i].written < SegLen(f[i].raw, TRUE)
                         THEN [f[i].raw EXCEPT !.kind = "partly filled"]
                         ELSE f[i].raw
             IN  [buf |-> IF buf.nil \/ buf.len < l THEN data
                          ELSE [data EXCEPT !.trail = buf.len - l],
                  err |-> "nil"]

\* proto.Unmarshal of buf into a message of the given kind
Unmarshal(buf, kind) ==
    IF buf.kind = kind /\ buf.trail = 0 THEN [msg |-> buf.body, err |-> "nil"]
    ELSE [msg |-> <<>>, err |-> "proto: cannot parse invalid wire-format data"]

\* the loop of loadIndexFromFile over the entries read
RECURSIVE updateAll(_, _)
updateAll(idx, data) ==
    IF data = <<>> THEN idx
    ELSE updateAll(update(idx, data[1].startKey, data[1].endKey,
                          data[1].offset, data[1].size), Tail(data))

\* loadIndexFromFile
loadIndexFromFile(f) ==
    IF FileSize(f) = 0 THEN [idx |-> NewBasicSSTableIndex, err |-> "EOF"]
    ELSE LET dataSize == f[1].raw.body
             r == ReadDataWithVarintPrefix(f, dataSize + MaxVarintLen64, NilBuf)
             idx == Unmarshal(r.buf, "SSTableIndex")
         IN  IF r.err # "nil" THEN [idx |-> NewBasicSSTableIndex, err |-> r.err]
             ELSE IF idx.err # "nil" THEN [idx |-> NewBasicSSTableIndex, err |-> idx.err]
             ELSE [idx |-> updateAll(NewBasicSSTableIndex, idx.msg), err |-> "nil"]

\* NewBasicSSTableReader on the file with content f
NewBasicSSTableReader(f) ==
    LET l == loadIndexFromFile(f)
    IN  IF l.err # "nil"
        THEN [reader |-> <<>>, err |-> OP_SSTABLE_LOAD_INDEX]
        ELSE [reader |-> [file |-> f, idx |-> l.idx, rBlockCache |-> <<>>],
              err |-> "nil"]

\* decompress: snappy.Decode, which takes the whole slice as the encoding
decompress(compressed) ==
    IF compressed.kind = "snappy" /\ compressed.trail = 0
    THEN [raw |-> compressed.body, err |-> "nil"]
    ELSE [raw |-> <<>>, err |-> "snappy: corrupt input"]

\* the loop of BasicSSTable.Get over the entries of a block
RECURSIVE findInBlock(_, _)
findInBlock(data, key) ==
    IF data = <<>> THEN NilBytes
    ELSE IF data[1].Key = key THEN PbBytes(data[1].Value)
    ELSE findInBlock(Tail(data), key)

\* BasicSSTable.Get of reader s
BasicSSTable_Get(s, key) ==
    LET o == GetOffset(s.idx, key)
    IN  IF ~o.exist THEN [value |-> NilBytes, err |-> "nil"]
        ELSE IF o.offset \in DOMAIN s.rBlockCache
        THEN [value |-> findInBlock(s.rBlockCache[o.offset], key), err |-> "nil"]
        ELSE IF o.offset + o.size > FileSize(s.file)
        THEN [value |-> NilBytes, err |-> OP_SSTABLE_LOAD_DATABLOCK]
        ELSE LET r == ReadDataWithVarintPrefix(s.file, o.offset, Buf(o.size))
                 data == decompress(r.buf)
                 block == Unmarshal(data.raw, "SSTableBlock")
             IN  IF r.err # "nil" \/ data.err # "nil" \/ block.err # "nil"
                 THEN [value |-> NilBytes, err |-> OP_SSTABLE_LOAD_DATABLOCK]
                 ELSE [value |-> findInBlock(block.msg, key), err |-> "nil"]

(***************************************************************************)
(* Database.                                                               *)
(*                                                                         *)
(* curMem              the current memtable                                *)
(* memtablesToCompact  the memtables Get reads after curMem                *)
(* sstableDir          the files of the sstable directory in the order of  *)
(*                     their names, each [name, file]                      *)
(* walDir              the names of the files of the wal directory         *)
(* loop                memtableCompactionLoop: where it is (pc), the       *)
(*                     memtable it received (mem), its SSTable writer (w)  *)
(* fg                  the foreground thread: idle between calls, or in    *)
(*                     Write at the send on memtableCompactionChan         *)
(* made                the number of memtables created                     *)
(* ops, faults         the calls made and the failures injected so far     *)
(* lastOp              the last call that returned: [op, n, key, value,    *)
(*                     err], n the number of the call                      *)
(* latest              per key, the value of its last successful Write or  *)
(*                     Delete (nil if none)                                *)
(* frozen              the memtables handed to the loop, each with the     *)
(*                     name of the SSTable file written from it (0: none)  *)
(***************************************************************************)
VARIABLES curMem, memtablesToCompact, sstableDir, walDir, loop, fg, made,
          ops, faults, lastOp, latest, frozen

\* A BasicWal on its own, for the properties of Append:
\* wal         the BasicWal
\* appends     the number of Append calls made
\* appended    the number of Append calls that returned nil
\* lastAppend  the last Append call: its log, the outcome io of its system
\*             calls, the wal before the call, the error returned
VARIABLES wal, appends, appended, lastAppend

dbVars == <<curMem, memtablesToCompact, sstableDir, walDir, loop, fg, made,
            ops, faults, lastOp, latest, frozen>>

walVars == <<wal, appends, appended, lastAppend>>

\* A skipList on its own, for the properties of upsert and search:
\* sl        the skipList
\* upserted  per key, the value of its last upsert (nil if none)
\* lastFound whether the last upsert was of a key the list held already
VARIABLES sl, upserted, lastFound

skipVars == <<sl, upserted, lastFound>>

\* A BasicSSTableIndex on its own, for the properties of GetOffset:
\* idx       the index
VARIABLES idx

idxVars == <<idx>>

\* The stable storage under the SSTable files, for what a crash leaves:
\* stable    stable[i] is the content of the i-th SSTable file that is on
\*           the device; the rest of the file is in the page cache only
VARIABLES stable

durVars == <<stable>>

\* Dump on its own, for the properties of the file it writes:
\* dumped    the skipList last dumped and the writer as Dump left it
VARIABLES dumped

dumpVars == <<dumped>>

\* The flush threshold on its own, for the accounting of sizes:
\* setting   the MemtableSizeByte the database was configured with
\* sum       len(key) + len(value) summed over the successful Writes on
\*           the current memtable
\* flushedAt the value of sum at each handoff of a memtable
VARIABLES setting, sum, flushedAt

sizeVars == <<setting, sum, flushedAt>>

vars == <<dbVars, walVars, skipVars, idxVars, durVars, dumpVars, sizeVars>>

\* getAllSSTableFileMetadata that keeps the order of ioutil.ReadDir
getAllSSTableFileMetadata_notReversed(dir) == dir

\* getAllSSTableFileMetadata: the files, latest first
RECURSIVE getAllSSTableFileMetadata(_)
getAllSSTableFileMetadata(dir) ==
    IF dir = <<>> THEN <<>>
    ELSE <<dir[Len(dir)]>> \o getAllSSTableFileMetadata(SubSeq(dir, 1, Len(dir) - 1))

\* the loop of Get over memtablesToCompact
RECURSIVE getFromMemtables(_, _)
getFromMemtables(mems, key) ==
    IF mems = <<>> THEN NilBytes
    ELSE LET value == SkipListMemTable_Get(mems[1], key)
         IN  IF ~value.nil THEN value ELSE getFromMemtables(Tail(mems), key)

\* the loop of Get over the sstable files
RECURSIVE getFromFiles(_, _)
getFromFiles(metas, key) ==
    IF metas = <<>> THEN [value |-> NilBytes, err |-> "nil"]
    ELSE LET r == NewBasicSSTableReader(metas[1].file)
         IN  IF r.err # "nil" THEN [value |-> NilBytes, err |-> r.err]
             ELSE LET g == BasicSSTable_Get(r.reader, key)
                  IN  IF g.err # "nil" \/ ~g.value.nil THEN g
                      ELSE getFromFiles(Tail(metas), key)

\* Database.Get of the database [curMem, memtablesToCompact, sstableDir]
Database_Get(db, key) ==
    LET value == SkipListMemTable_Get(db.curMem, key)
        queued == getFromMemtables(db.memtablesToCompact, key)
    IN  IF ~value.nil THEN [value |-> value, err |-> "nil"]
        ELSE IF ~queued.nil THEN [value |-> queued, err |-> "nil"]
        ELSE getFromFiles(getAllSSTableFileMetadata(db.sstableDir), key)

\* what a Get(key) of the foreground thread returns in the current state
Get(key) ==
    Database_Get([curMem |-> curMem, memtablesToCompact |-> memtablesToCompact,
                  sstableDir |-> sstableDir], key)

\* the process runs: neither log.Fatalf in the loop nor a panic has ended it
Running == loop.pc # "fatal" /\ fg.pc # "panic"

NoMem == <<>>

NoWriter == <<>>

Init ==
    /\ curMem = NewBasicMemTable(1)
    /\ memtablesToCompact = <<>>
    /\ sstableDir = <<>>
    /\ walDir = {1}
    /\ loop = [pc |-> "recv", mem |-> NoMem, w |-> NoWriter]
    /\ fg = [pc |-> "idle", key |-> <<>>, value |-> NilBytes]
    /\ made = 1
    /\ ops = 0
    /\ faults = 0
    /\ lastOp = [op |-> "NewDatabase", n |-> 0, key |-> <<>>, value |-> NilBytes, err |-> NoError]
    /\ latest = [k \in Keys |-> NilBytes]
    /\ frozen = <<>>
    /\ wal = NewBasicWal
    /\ appends = 0
    /\ appended = 0
    /\ lastAppend = [log |-> <<>>, io |-> <<>>, before |-> NewBasicWal, err |-> NoError]
    /\ sl = newSkipList
    /\ upserted = [k \in MoreKeys |-> NilBytes]
    /\ lastFound = FALSE
    /\ idx = NewBasicSSTableIndex
    /\ stable = [i \in 1..MaxOps |-> <<>>]
    /\ dumped = [done |-> FALSE, s |-> newSkipList, w |-> NoWriter]
    /\ setting = MemtableSizeByte
    /\ sum = 0
    /\ flushedAt = <<>>

\* the outcomes of the system calls of a WAL append the model lets happen
Outcomes(w, log) ==
    {AppendOk(w, log)}
    \cup (IF faults < MaxFaults
          THEN {io \in AppendFaults(w, log) : io.w.e2 = "nil" \/ io.w.n2 <= MaxPartial}
          ELSE {})

Failed(io) == io.stat # "nil" \/ io.w.e1 # "nil" \/ io.w.e2 # "nil"

\* Database.Write(key, value), up to its return or to the send on
\* memtableCompactionChan, which waits for the loop to receive
Write(key, value) ==
    /\ Running /\ fg.pc = "idle" /\ ops < MaxOps
    /\ \E io \in Outcomes(curMem.wal, keyValueToWalLogBytes(key, value)) :
       \E lvl \in randomLevel :
          LET r == SkipListMemTable_Write(curMem, key, value, io, lvl)
              send == r.err = NoError
                      /\ SizeBytes(r.mem) >= Uint32(MemtableSizeByte)
          IN  /\ curMem' = r.mem
              /\ faults' = IF Failed(io) THEN faults + 1 ELSE faults
              /\ latest' = IF r.err = NoError THEN [latest EXCEPT ![key] = value]
                           ELSE latest
              /\ fg' = IF send THEN [pc |-> "send", key |-> key, value |-> value]
                       ELSE fg
              /\ lastOp' = IF send THEN lastOp
                           ELSE [op |-> "Write", n |-> ops + 1, key |-> key, value |-> value,
                                 err |-> r.err]
    /\ ops' = ops + 1
    /\ UNCHANGED <<memtablesToCompact, sstableDir, walDir, loop, made, frozen>>
    /\ UNCHANGED <<walVars, skipVars, idxVars, durVars, dumpVars, sizeVars>>

\* WriteSend with a send that does not wait for the loop to receive
WriteSend_withoutRendezvous ==
    /\ Running /\ fg.pc = "send"
    /\ loop' = [pc |-> "create", mem |-> curMem, w |-> NoWriter]
    /\ frozen' = Append(frozen, [mem |-> curMem, sst |-> 0])
    /\ curMem' = NewBasicMemTable(made + 1)
    /\ walDir' = walDir \cup {made + 1}
    /\ made' = made + 1
    /\ fg' = [pc |-> "idle", key |-> <<>>, value |-> NilBytes]
    /\ lastOp' = [op |-> "Write", n |-> ops, key |-> fg.key, value |-> fg.value,
                  err |-> NoError]
    /\ UNCHANGED <<memtablesToCompact, sstableDir, ops, latest, faults>>
    /\ UNCHANGED <<walVars, skipVars, idxVars, durVars, dumpVars, sizeVars>>

\* WriteSend that leaves the handed-off memtable installed as curMem
WriteSend_keepsMemtable ==
    /\ Running /\ fg.pc = "send" /\ loop.pc = "recv"
    /\ loop' = [pc |-> "create", mem |-> curMem, w |-> NoWriter]
    /\ frozen' = Append(frozen, [mem |-> curMem, sst |-> 0])
    /\ fg' = [pc |-> "idle", key |-> <<>>, value |-> NilBytes]
    /\ lastOp' = [op |-> "Write", n |-> ops, key |-> fg.key, value |-> fg.value,
                  err |-> NoError]
    /\ UNCHANGED <<curMem, walDir, made, memtablesToCompact, sstableDir, ops,
                   latest, faults>>
    /\ UNCHANGED <<walVars, skipVars, idxVars, durVars, dumpVars, sizeVars>>

\* The send of Write meets the receive of the loop; Write installs a new
\* memtable and returns.  NewBasicMemTable panics when its WAL file cannot
\* be created.
WriteSend ==
    /\ Running /\ fg.pc = "send" /\ loop.pc = "recv"
    /\ loop' = [pc |-> "create", mem |-> curMem, w |-> NoWriter]
    /\ frozen' = Append(frozen, [mem |-> curMem, sst |-> 0])
    /\ \E err \in {"nil"} \cup (IF faults < MaxFaults THEN {"EEXIST"} ELSE {}) :
          IF err = "nil"
          THEN /\ curMem' = NewBasicMemTable(made + 1)
               /\ walDir' = walDir \cup {made + 1}
               /\ made' = made + 1
               /\ fg' = [pc |-> "idle", key |-> <<>>, value |-> NilBytes]
               /\ lastOp' = [op |-> "Write", n |-> ops, key |-> fg.key, value |-> fg.value,
                             err |-> NoError]
               /\ UNCHANGED faults
          ELSE /\ fg' = [fg EXCEPT !.pc = "panic"]
               /\ faults' = faults + 1
               /\ UNCHANGED <<curMem, walDir, made, lastOp>>
    /\ UNCHANGED <<memtablesToCompact, sstableDir, ops, latest>>
    /\ UNCHANGED <<walVars, skipVars, idxVars, durVars, dumpVars, sizeVars>>

\* Database.Delete(key)
Delete(key) ==
    /\ Running /\ fg.pc = "idle" /\ ops < MaxOps
    /\ \E io \in Outcomes(curMem.wal, keyValueToWalLogBytes(key, tombstoneVal)) :
       \E lvl \in randomLevel :
          LET r == SkipListMemTable_Delete(curMem, key, io, lvl)
          IN  /\ curMem' = r.mem
              /\ faults' = IF Failed(io) THEN faults + 1 ELSE faults
              /\ latest' = IF r.err = NoError THEN [latest EXCEPT ![key] = tombstoneVal]
                           ELSE latest
              /\ lastOp' = [op |-> "Delete", n |-> ops + 1, key |-> key, value |-> tombstoneVal,
                            err |-> r.err]
    /\ ops' = ops + 1
    /\ UNCHANGED <<memtablesToCompact, sstableDir, walDir, loop, fg, made, frozen>>
    /\ UNCHANGED <<walVars, skipVars, idxVars, durVars, dumpVars, sizeVars>>

(***************************************************************************)
(* memtableCompactionLoop.  After the receive (in WriteSend) the loop runs *)
(* serializeMemtable one system call at a time, so that the foreground     *)
(* thread sees the file at each stage, and then deletes the WAL.           *)
(***************************************************************************)
\* the content of the file the loop writes becomes w.file
SetFile(dir, content) == [dir EXCEPT ![Len(dir)].file = content]

\* NewBasicSSTableWriter: newSSTableFile creates the file
LoopCreate ==
    /\ Running /\ loop.pc = "create"
    /\ sstableDir' = Append(sstableDir, [name |-> Len(sstableDir) + 1, file |-> <<>>])
    /\ loop' = [loop EXCEPT !.pc = "placeholder",
                            !.w = NewBasicSSTableWriter(SStableDatablockSizeByte, loop.mem)]
    /\ frozen' = [frozen EXCEPT ![Len(frozen)].sst = Len(sstableDir) + 1]
    /\ UNCHANGED <<curMem, memtablesToCompact, walDir, fg, made, ops, faults,
                   lastOp, latest>>
    /\ UNCHANGED <<walVars, skipVars, idxVars, durVars, dumpVars, sizeVars>>

\* writeDataAndBuildIndex: the header is written as a placeholder
LoopPlaceholder ==
    /\ Running /\ loop.pc = "placeholder"
    /\ loop' = [loop EXCEPT !.pc = "blocks", !.w.file = <<SizeHeader(0)>>]
    /\ sstableDir' = SetFile(sstableDir, loop'.w.file)
    /\ UNCHANGED <<curMem, memtablesToCompact, walDir, fg, made, ops, faults,
                   lastOp, latest, frozen>>
    /\ UNCHANGED <<walVars, skipVars, idxVars, durVars, dumpVars, sizeVars>>

\* writeDataBlocksAndUpdateIndex: one block is written
LoopBlock ==
    /\ Running /\ loop.pc = "blocks" /\ moreBlocks(loop.w)
    /\ loop' = [loop EXCEPT !.w = writeNextBlock(loop.w)]
    /\ sstableDir' = SetFile(sstableDir, loop'.w.file)
    /\ UNCHANGED <<curMem, memtablesToCompact, walDir, fg, made, ops, faults,
                   lastOp, latest, frozen>>
    /\ UNCHANGED <<walVars, skipVars, idxVars, durVars, dumpVars, sizeVars>>

\* writeDataAndBuildIndex: WriteAt of the data size over the placeholder
LoopHeader ==
    /\ Running /\ loop.pc = "blocks" /\ ~moreBlocks(loop.w)
    /\ loop' = [loop EXCEPT !.pc = "index",
                            !.w.file[1] = SizeHeader(loop.w.totalDataSize)]
    /\ sstableDir' = SetFile(sstableDir, loop'.w.file)
    /\ UNCHANGED <<curMem, memtablesToCompact, walDir, fg, made, ops, faults,
                   lastOp, latest, frozen>>
    /\ UNCHANGED <<walVars, skipVars, idxVars, durVars, dumpVars, sizeVars>>

\* writeIndex; Dump and serializeMemtable return nil
LoopIndex ==
    /\ Running /\ loop.pc = "index"
    /\ loop' = [loop EXCEPT !.pc = "delete", !.w = writeIndex(loop.w)]
    /\ sstableDir' = SetFile(sstableDir, loop'.w.file)
    /\ UNCHANGED <<curMem, memtablesToCompact, walDir, fg, made, ops, faults,
                   lastOp, latest, frozen>>
    /\ UNCHANGED <<walVars, skipVars, idxVars, durVars, dumpVars, sizeVars>>

\* BasicWal.Delete: os.Remove of the WAL file
\* BasicWal.Delete that leaves the WAL file in the directory
BasicWal_Delete_keepsFile(dir, name, err) == dir

BasicWal_Delete(dir, name, err) == IF err = "nil" THEN dir \ {name} ELSE dir

\* the WAL deleted when the data is written and the index is not
LoopDeleteWal_beforeIndex ==
    /\ Running /\ loop.pc = "index"
    /\ walDir' = BasicWal_Delete(walDir, loop.mem.name, "nil")
    /\ loop' = [pc |-> "recv", mem |-> NoMem, w |-> NoWriter]
    /\ UNCHANGED <<curMem, memtablesToCompact, sstableDir, fg, made, ops, faults,
                   lastOp, latest, frozen>>
    /\ UNCHANGED <<walVars, skipVars, idxVars, durVars, dumpVars, sizeVars>>

\* the loop returns after its first memtable instead of receiving again
LoopDeleteWal_thenReturn ==
    /\ Running /\ loop.pc = "delete"
    /\ walDir' = BasicWal_Delete(walDir, loop.mem.name, "nil")
    /\ loop' = [pc |-> "returned", mem |-> NoMem, w |-> NoWriter]
    /\ UNCHANGED <<curMem, memtablesToCompact, sstableDir, fg, made, ops, faults,
                   lastOp, latest, frozen>>
    /\ UNCHANGED <<walVars, skipVars, idxVars, durVars, dumpVars, sizeVars>>

\* mem.Wal().Delete(); a failure is logged as a warning and the loop goes
\* on to the next receive
LoopDeleteWal ==
    /\ Running /\ loop.pc = "delete"
    /\ \E err \in {"nil"} \cup (IF faults < MaxFaults THEN {"EBUSY"} ELSE {}) :
          /\ walDir' = BasicWal_Delete(walDir, loop.mem.name, err)
          /\ faults' = IF err = "nil" THEN faults ELSE faults + 1
    /\ loop' = [pc |-> "recv", mem |-> NoMem, w |-> NoWriter]
    /\ UNCHANGED <<curMem, memtablesToCompact, sstableDir, fg, made, ops,
                   lastOp, latest, frozen>>
    /\ UNCHANGED <<walVars, skipVars, idxVars, durVars, dumpVars, sizeVars>>

\* A system call of serializeMemtable fails: the loop calls log.Fatalf,
\* which ends the process.  What the failed call left of the file is not
\* modelled, nothing reads it.
LoopFatal ==
    /\ Running /\ loop.pc \in {"create", "placeholder", "blocks", "index"}
    /\ faults < MaxFaults
    /\ faults' = faults + 1
    /\ loop' = [loop EXCEPT !.pc = "fatal"]
    /\ UNCHANGED <<curMem, memtablesToCompact, sstableDir, walDir, fg, made, ops,
                   lastOp, latest, frozen>>
    /\ UNCHANGED <<walVars, skipVars, idxVars, durVars, dumpVars, sizeVars>>

Next ==
    \/ \E key \in Keys, value \in Values : Write(key, value)
    \/ WriteSend
    \/ \E key \in Keys : Delete(key)
    \/ LoopCreate
    \/ LoopPlaceholder
    \/ LoopBlock
    \/ LoopHeader
    \/ LoopIndex
    \/ LoopDeleteWal
    \/ LoopFatal

Spec == Init /\ [][Next]_vars

(***************************************************************************)
(* The BasicWal on its own: Append calls under every outcome of their      *)
(* system calls.                                                           *)
(***************************************************************************)
\* the logs appended: what keyValueToWalLogBytes makes for a Write
Logs == {keyValueToWalLogBytes(KeyA, value) : value \in Values}

\* wal.Append(log)
WalAppend(log) ==
    /\ appends < MaxAppends
    /\ appends' = appends + 1
    /\ \E io \in AppendOutcomes(wal, log) :
          LET r == BasicWal_Append(wal, log, io)
          IN  /\ wal' = r.wal
              /\ appended' = IF r.err = NoError THEN appended + 1 ELSE appended
              /\ lastAppend' = [log |-> log, io |-> io, before |-> wal, err |-> r.err]
    /\ UNCHANGED <<dbVars, skipVars, idxVars, durVars, dumpVars, sizeVars>>

WalNext == \E log \in Logs : WalAppend(log)

WalSpec == Init /\ [][WalNext]_vars

(***************************************************************************)
(* Dump as a whole: what the file of a writer holds when Dump has returned *)
(* nil.                                                                    *)
(***************************************************************************)
\* writeDataBlocksAndUpdateIndex: all its rounds
RECURSIVE writeDataBlocksAndUpdateIndex(_)
writeDataBlocksAndUpdateIndex(w) ==
    IF moreBlocks(w) THEN writeDataBlocksAndUpdateIndex(writeNextBlock(w)) ELSE w

\* writeDataAndBuildIndex
writeDataAndBuildIndex(w) ==
    LET d == writeDataBlocksAndUpdateIndex([w EXCEPT !.file = <<SizeHeader(0)>>])
    IN  [d EXCEPT !.file[1] = SizeHeader(d.totalDataSize)]

\* BasicSSTable.Dump
Dump(w) == writeIndex(writeDataAndBuildIndex(w))

(***************************************************************************)
(* Properties of Database.                                                 *)
(***************************************************************************)
\* the foreground thread is between two calls and can issue a Get
CanGet == Running /\ fg.pc = "idle"

Found(value) == [value |-> value, err |-> "nil"]

\* C1 (read-your-writes): a Get(k) issued right after Write(k, v) returned
\* nil returns v, wherever the compaction loop is.
C1_ReadYourWrites ==
    (CanGet /\ lastOp.op = "Write" /\ lastOp.err = NoError)
        => Get(lastOp.key) = Found(lastOp.value)

\* C2 (latest wins): in every state Get(k) returns the value of the most
\* recent successful Write(k, .) or Delete(k).
C2_LatestWins ==
    CanGet => \A k \in Keys : ~latest[k].nil => Get(k) = Found(latest[k])

\* C3 (the empty value is a value): while the latest successful Write of k
\* wrote the empty value, Get(k) returns the empty value as a found result.
C3_EmptyValueFound ==
    CanGet => \A k \in Keys : latest[k] = EmptyValue => Get(k) = Found(EmptyValue)

\* a step in which Database.Write returns an error
FailedWrite ==
    ops' = ops + 1 /\ lastOp'.n = ops' /\ lastOp'.op = "Write" /\ lastOp'.err # NoError

\* C4 (a failed Write is not visible): a Write whose WAL append fails
\* returns the error of the append, leaves the skip-list and TotalSizeBytes
\* of the current memtable as they were, hands nothing to the compaction
\* loop, and leaves what Get returns for every key as it was.
C4_FailedWriteNotVisible ==
    [][FailedWrite =>
          /\ lastOp'.err.Op \in {OP_READ_FILE, OP_APPEND, OP_ROLLBACK}
          /\ curMem'.s = curMem.s
          /\ curMem'.TotalSizeBytes = curMem.TotalSizeBytes
          /\ curMem'.name = curMem.name
          /\ fg' = fg /\ fg.pc = "idle"
          /\ loop' = loop
          /\ \A x \in Keys :
                Database_Get([curMem |-> curMem',
                              memtablesToCompact |-> memtablesToCompact',
                              sstableDir |-> sstableDir'], x) = Get(x)]_vars

\* a Write of a new value for a key that has one failed, the failed append
\* having left bytes in the WAL file
C4_Witness ==
    /\ lastOp.op = "Write" /\ lastOp.err.Op = OP_ROLLBACK
    /\ ~latest[lastOp.key].nil /\ latest[lastOp.key] # lastOp.value
    /\ Get(lastOp.key) = Found(latest[lastOp.key])
    /\ FileSize(curMem.wal.file) > 0

\* Dump is in progress: the file is created and its index is not written
DumpInProgress == loop.pc \in {"placeholder", "blocks", "index"}

\* the database with dir as its sstable directory
WithDir(dir) ==
    [curMem |-> curMem, memtablesToCompact |-> memtablesToCompact, sstableDir |-> dir]

\* the sstable directory without the file in progress, and with that file
\* as Dump leaves it when it returns nil
FileAbsent == SubSeq(sstableDir, 1, Len(sstableDir) - 1)

FileComplete ==
    SetFile(sstableDir,
            Dump(NewBasicSSTableWriter(SStableDatablockSizeByte, loop.mem)).file)

\* C8 (Get tolerates a flush in progress): while Dump is in progress, Get
\* of any key returns no error caused by the incomplete file: it returns
\* what it would return with the file absent or with the file complete.
C8_GetToleratesFlush ==
    (CanGet /\ DumpInProgress) =>
        \A k \in Keys :
            Get(k) \in {Database_Get(WithDir(FileAbsent), k),
                        Database_Get(WithDir(FileComplete), k)}

\* the segment is written in full
Complete(seg) == seg.written = SegLen(seg.raw, seg.framed)

\* the whole WAL record of the memtable record is in the WAL file of m,
\* and the file exists
InWal(m, record) ==
    /\ m.name \in walDir
    /\ \E i \in DOMAIN m.wal.file :
          /\ Complete(m.wal.file[i])
          /\ m.wal.file[i].raw.body.Data
                = keyValueToWalLogBytes(record.Key, record.Value)

\* f is a completely written SSTable: header with the size of the data,
\* data blocks, index
Sealed(f) ==
    /\ Len(f) >= 3
    /\ \A i \in DOMAIN f : Complete(f[i])
    /\ f[1].raw = Blob("sizeBuf", FileSize(SubSeq(f, 2, Len(f) - 1)), MaxVarintLen64)
    /\ \A i \in 2..(Len(f) - 1) : f[i].framed /\ f[i].raw.kind = "snappy"
    /\ f[Len(f)].framed /\ f[Len(f)].raw.kind = "SSTableIndex"

\* the memtable record is in a data block of the sealed SSTable f
InSSTable(f, record) ==
    /\ Sealed(f)
    /\ \E i \in 2..(Len(f) - 1) :
          \E j \in DOMAIN f[i].raw.body.body :
              f[i].raw.body.body[j] = [Key |-> record.Key, Value |-> record.Value.b]

\* C9 (WAL retirement order): the WAL of a frozen memtable is deleted only
\* after Dump of the memtable returned nil, and never when serialization
\* failed: in every state each record of each frozen memtable is whole in
\* its existing WAL file or is in a completely written SSTable file.
C9_WalRetirementOrder ==
    \A i \in DOMAIN frozen :
        LET m == frozen[i].mem
            records == GetAll(m)
        IN  /\ \A j \in DOMAIN records :
                  \/ InWal(m, records[j])
                  \/ /\ frozen[i].sst # 0
                     /\ InSSTable(sstableDir[frozen[i].sst].file, records[j])
            /\ (loop.pc = "fatal" /\ i = Len(frozen)) => m.name \in walDir

\* the WAL of a frozen memtable of two records is deleted
C9_Witness ==
    \E i \in DOMAIN frozen :
        /\ frozen[i].mem.name \notin walDir
        /\ Len(GetAll(frozen[i].mem)) = 2
        /\ Sealed(sstableDir[frozen[i].sst].file)

\* C10 (the tombstone is returned verbatim): after a successful Delete(k)
\* and until the next successful Write(k, .), Get(k) returns the bytes
\* 'tombstone' as a found result, wherever the tombstone is.
C10_TombstoneVerbatim ==
    CanGet => \A k \in Keys : latest[k] = tombstoneVal => Get(k) = Found(tombstoneVal)

(***************************************************************************)
(* Properties of BasicWal.Append, on the WAL of WalSpec.                   *)
(***************************************************************************)
\* the record of the last Append call as it is in the file when n of its
\* bytes are written
LastRecord(n) ==
    [raw |-> Serialize([seq |-> Uint32(lastAppend.before.seq + 1),
                        data |-> lastAppend.log]),
     written |-> n, framed |-> TRUE]

LastRecordLen == SegLen(LastRecord(0).raw, TRUE)

\* the whole record is in the file and seq has advanced by one
WholeRecord ==
    /\ wal.file = Append(lastAppend.before.file, LastRecord(LastRecordLen))
    /\ wal.seq = lastAppend.before.seq + 1

\* the file and seq are as they were before the call
AsBefore ==
    wal.file = lastAppend.before.file /\ wal.seq = lastAppend.before.seq

\* a part of the record is in the file, seq is as it was before the call
PartialRecord ==
    /\ \E n \in 1..(LastRecordLen - 1) :
          wal.file = Append(lastAppend.before.file, LastRecord(n))
    /\ wal.seq = lastAppend.before.seq

\* C5 as stated: whatever the write and the truncation do, when Append
\* returns either the whole record is in the file and seq has advanced by
\* one, or file and seq are as before the call.
C5_AppendAtomic ==
    appends > 0 => (WholeRecord \/ AsBefore)

\* C5 as the code has it: Append that returns nil has put the whole record
\* in the file and advanced seq by one; Append that returns an error of
\* kind READ_FILE or APPEND has left file and seq as they were; Append that
\* returns an error of kind ROLLBACK (the truncation failed) has left seq as
\* it was and the file as it was or with a part of the record at its end.
C5_AppendAtomicUnlessRollbackFails ==
    appends > 0 =>
        IF lastAppend.err = NoError THEN WholeRecord
        ELSE IF lastAppend.err.Op = OP_ROLLBACK THEN AsBefore \/ PartialRecord
        ELSE lastAppend.err.Op \in {OP_READ_FILE, OP_APPEND} /\ AsBefore

\* an Append after a successful one wrote a part of its record, failed, and
\* was rolled back
C5_Witness ==
    /\ appends > 0 /\ lastAppend.err.Op = OP_APPEND
    /\ lastAppend.io.w.n2 > 0
    /\ lastAppend.before.seq > 0
    /\ AsBefore

\* the sequence numbers of the whole records of file f, in file order
RECURSIVE RecordSeqs(_)
RecordSeqs(f) ==
    IF f = <<>> THEN <<>>
    ELSE IF f[1].written = SegLen(f[1].raw, TRUE)
    THEN <<f[1].raw.body.Seq>> \o RecordSeqs(Tail(f))
    ELSE RecordSeqs(Tail(f))

\* C6 (sequence progression): seq is the number of Append calls that
\* returned nil (0 at the start); a failed Append leaves it as it was, a
\* successful one adds one to it, and the whole records of the file carry
\* 1, 2, 3, ... in file order.
C6_SeqProgression ==
    /\ wal.seq = appended
    /\ RecordSeqs(wal.file) = [i \in 1..appended |-> i]
    /\ appends > 0 =>
          wal.seq = IF lastAppend.err = NoError THEN lastAppend.before.seq + 1
                    ELSE lastAppend.before.seq

\* a successful Append after a failed one that left bytes in the file,
\* after a successful one
C6_Witness ==
    /\ appended >= 2 /\ lastAppend.err = NoError
    /\ Len(wal.file) > appended

\* the write of the last Append call failed
WriteFailed ==
    /\ lastAppend.io.stat = "nil"
    /\ (lastAppend.io.w.e1 # "nil" \/ lastAppend.io.w.e2 # "nil")

\* C7 (error kinds): when the write of an Append fails, Append returns a
\* WalError of kind APPEND with the seq of before the call and the error of
\* the write, unless the truncation fails too: then the error is of kind
\* ROLLBACK.
C7_ErrorKinds ==
    (appends > 0 /\ WriteFailed) =>
        IF lastAppend.io.trunc = "nil"
        THEN lastAppend.err =
                WalError(OP_APPEND, lastAppend.before.seq,
                         IF lastAppend.io.w.e1 # "nil" THEN lastAppend.io.w.e1
                         ELSE lastAppend.io.w.e2)
        ELSE lastAppend.err.Op = OP_ROLLBACK

\* a write that stops in the middle of the record, after a successful
\* Append, and a truncation that fails
C7_Witness ==
    /\ appends > 0 /\ WriteFailed
    /\ lastAppend.io.w.n2 > 0 /\ lastAppend.io.trunc # "nil"
    /\ lastAppend.before.seq > 0
    /\ lastAppend.err.Op = OP_ROLLBACK

(***************************************************************************)
(* Further properties of Database.                                         *)
(***************************************************************************)
\* a step in which Database.Delete is called and returns
DeleteStep ==
    ops' = ops + 1 /\ lastOp'.n = ops' /\ lastOp'.op = "Delete"

\* C11 (Delete never triggers a flush): a Delete hands no memtable to the
\* compaction loop, installs no new memtable and leaves TotalSizeBytes as it
\* was; when it succeeds it has appended one whole record to the WAL and
\* upserted the key with the tombstone in the skip-list of the current
\* memtable.
C11_DeleteNeverFlushes ==
    [][DeleteStep =>
          /\ fg' = fg /\ fg.pc = "idle"
          /\ loop' = loop /\ frozen' = frozen
          /\ made' = made /\ walDir' = walDir /\ sstableDir' = sstableDir
          /\ curMem'.name = curMem.name
          /\ curMem'.TotalSizeBytes = curMem.TotalSizeBytes
          /\ lastOp'.err = NoError =>
                /\ Len(curMem'.wal.file) = Len(curMem.wal.file) + 1
                /\ SubSeq(curMem'.wal.file, 1, Len(curMem.wal.file)) = curMem.wal.file
                /\ LET seg == curMem'.wal.file[Len(curMem'.wal.file)]
                   IN  /\ seg.written = SegLen(seg.raw, TRUE)
                       /\ seg.raw.body.Data
                             = keyValueToWalLogBytes(lastOp'.key, tombstoneVal)
                /\ \E lvl \in randomLevel :
                      curMem'.s = upsert(curMem.s, lastOp'.key, tombstoneVal, lvl)]_vars

\* a Delete succeeded on a memtable of two keys that is one byte below the
\* threshold
C11_Witness ==
    /\ lastOp.op = "Delete" /\ lastOp.err = NoError /\ lastOp.n = ops
    /\ curMem.TotalSizeBytes = MemtableSizeByte - 1
    /\ curMem.s.size = 2
    /\ SkipListMemTable_Get(curMem, lastOp.key) = tombstoneVal

\* a step in which Database.Write returns nil: at once, or after the send
WriteReturns ==
    /\ lastOp'.op = "Write" /\ lastOp'.err = NoError /\ fg'.pc = "idle"
    /\ \/ fg.pc = "idle" /\ ops' = ops + 1 /\ lastOp'.n = ops'
       \/ fg.pc = "send"

\* C12 (flush threshold): when a successful Write returns, TotalSizeBytes of
\* the current memtable is below MemtableSizeByte; a Write that brings it to
\* or above MemtableSizeByte does not return before the memtable is handed
\* to the compaction loop and a new memtable with TotalSizeBytes 0, an empty
\* skip-list and a new WAL file is installed.
C12_FlushThreshold ==
    [][/\ WriteReturns =>
             /\ curMem'.TotalSizeBytes < MemtableSizeByte
             /\ IF fg.pc = "send"
                THEN /\ curMem.TotalSizeBytes >= MemtableSizeByte
                     /\ loop'.mem = curMem /\ loop'.pc = "create"
                     /\ frozen' = Append(frozen, [mem |-> curMem, sst |-> 0])
                     /\ curMem'.TotalSizeBytes = 0
                     /\ curMem'.s = newSkipList
                     /\ curMem'.wal = NewBasicWal
                     /\ curMem'.name \notin walDir /\ walDir' = walDir \cup {curMem'.name}
                ELSE curMem'.name = curMem.name /\ loop' = loop /\ frozen' = frozen
       /\ (ops' = ops + 1 /\ curMem'.TotalSizeBytes >= MemtableSizeByte) =>
             /\ fg'.pc = "send" /\ lastOp' = lastOp
             /\ curMem'.name = curMem.name]_vars

\* the second flush: a Write has returned after it handed a memtable at the
\* threshold to the loop, which had written an SSTable before
C12_Witness ==
    /\ lastOp.op = "Write" /\ lastOp.err = NoError /\ lastOp.n = ops
    /\ fg.pc = "idle" /\ loop.pc = "create"
    /\ Len(frozen) = 2
    /\ frozen[2].mem.TotalSizeBytes >= MemtableSizeByte
    /\ curMem.TotalSizeBytes = 0 /\ curMem.name = 3

\* C13 (SSTable round trip): once Dump of a memtable has returned nil, a
\* reader opened on the file returns for every key of the memtable the
\* value the memtable holds for it.
C13_SSTableRoundTrip ==
    \A i \in DOMAIN frozen :
        (frozen[i].sst # 0 /\ Sealed(sstableDir[frozen[i].sst].file)) =>
            LET r == NewBasicSSTableReader(sstableDir[frozen[i].sst].file)
            IN  /\ r.err = "nil"
                /\ \A k \in Keys :
                      ~SkipListMemTable_Get(frozen[i].mem, k).nil =>
                          BasicSSTable_Get(r.reader, k)
                              = Found(SkipListMemTable_Get(frozen[i].mem, k))

(***************************************************************************)
(* The BasicSSTableIndex on its own: update calls with any keys in any     *)
(* order.                                                                  *)
(***************************************************************************)
\* the offsets that update is called with; the size is that of one block
Offsets == {MaxVarintLen64, MaxVarintLen64 + 11}

\* idx.update(startKey, endKey, offset, size)
IndexUpdate(startKey, endKey, offset) ==
    /\ Len(idx.entries) < MaxEntries \/ startKey \in DOMAIN idx.meta
    /\ idx' = update(idx, startKey, endKey, offset, 11)
    /\ UNCHANGED <<dbVars, walVars, skipVars, durVars, dumpVars, sizeVars>>

IndexNext ==
    \E startKey \in MoreKeys, endKey \in MoreKeys, offset \in Offsets :
        IndexUpdate(startKey, endKey, offset)

IndexSpec == Init /\ [][IndexNext]_vars

\* what GetOffset returns for an entry
Hit(e) == [offset |-> e.offset, size |-> e.size, exist |-> TRUE]

\* the entries were added with increasing start keys and ranges
\* [startKey, endKey] that do not overlap
Increasing ==
    /\ \A i \in DOMAIN idx.entries :
          StrLeq(idx.entries[i].startKey, idx.entries[i].endKey)
    /\ \A i, j \in DOMAIN idx.entries :
          i < j => StrLess(idx.entries[i].endKey, idx.entries[j].startKey)

\* C14 as stated: for any index and any entry e of it, GetOffset of the
\* start key of e and GetOffset of the end key of e return (e.offset,
\* e.size, true).
C14_StartAndEndKey ==
    \A i \in DOMAIN idx.entries :
        /\ GetOffset(idx, idx.entries[i].startKey) = Hit(idx.entries[i])
        /\ GetOffset(idx, idx.entries[i].endKey) = Hit(idx.entries[i])

\* C14 as the code has it: for any index and any entry e of it, GetOffset
\* of the start key of e returns (e.offset, e.size, true); GetOffset of the
\* end key of e does so when the entries were added with increasing start
\* keys and ranges that do not overlap.
C14_StartKeyAndEndKeyIfIncreasing ==
    \A i \in DOMAIN idx.entries :
        /\ GetOffset(idx, idx.entries[i].startKey) = Hit(idx.entries[i])
        /\ Increasing => GetOffset(idx, idx.entries[i].endKey) = Hit(idx.entries[i])

\* an index of two entries added in increasing order, with different
\* offsets, the end key of the first above its start key
C14_Witness ==
    /\ Increasing /\ Len(idx.entries) = 2
    /\ idx.entries[1].offset # idx.entries[2].offset
    /\ idx.entries[1].startKey # idx.entries[1].endKey
    /\ GetOffset(idx, idx.entries[1].endKey) = Hit(idx.entries[1])

\* the entries whose range [startKey, endKey] holds key
Covering(key) ==
    {i \in DOMAIN idx.entries :
        StrLeq(idx.entries[i].startKey, key) /\ StrLeq(key, idx.entries[i].endKey)}

\* C15 (index range lookup): in an index whose entries were added with
\* increasing start keys and ranges that do not overlap, GetOffset(key)
\* returns (offset, size, true) of the entry with startKey <= key <= endKey,
\* and 'not present' when there is no such entry (key below the first start
\* key, above the last end key, or between two entries).
C15_RangeLookup ==
    Increasing =>
        \A key \in MoreKeys :
            IF Covering(key) = {}
            THEN ~GetOffset(idx, key).exist
            ELSE \A i \in Covering(key) : GetOffset(idx, key) = Hit(idx.entries[i])

\* an index of two entries with a key inside the range of the first that is
\* not its start key, a key between the two entries, and a key below the
\* first
C15_Witness ==
    /\ Increasing /\ Len(idx.entries) = 2
    /\ idx.entries[1].offset # idx.entries[2].offset
    /\ \E key \in MoreKeys :
          /\ StrLess(idx.entries[1].startKey, key)
          /\ StrLeq(key, idx.entries[1].endKey)
          /\ GetOffset(idx, key) = Hit(idx.entries[1])
    /\ \E key \in MoreKeys :
          /\ StrLess(idx.entries[1].endKey, key)
          /\ StrLess(key, idx.entries[2].startKey)
          /\ ~GetOffset(idx, key).exist

\* no call of Write or Delete has been made with key: every call so far
\* succeeded, and none of them wrote or deleted key
NeverWritten(key) == faults = 0 /\ latest[key] = NilBytes

\* C16 (a missing key is not an error): Get(k) of a key that was never
\* written and never deleted returns (nil, nil), whatever the frozen
\* memtables and the SSTable files hold.
C16_MissingKeyIsNil ==
    CanGet => \A k \in Keys : NeverWritten(k) => Get(k) = Found(NilBytes)

\* the last call was a Write, and it has returned nil
AfterWrite ==
    CanGet /\ lastOp.op = "Write" /\ lastOp.err = NoError /\ lastOp.n = ops

C18_BothDirectoriesEmpty ==
    ops = 0 => walDir = {} /\ sstableDir = <<>>

\* C18, as the code has it: right after NewDatabase has returned, and until
\* the first memtable is frozen, the sstable directory is empty and the wal
\* directory holds exactly one file, the WAL file of the current memtable,
\* which NewBasicMemTable created; no record is in it before the first call.
C18_OnlyTheFirstWalFile ==
    frozen = <<>> =>
        /\ sstableDir = <<>>
        /\ walDir = {curMem.name}
        /\ ops = 0 => curMem.wal = NewBasicWal

\* NewDatabase has returned and no call has been made
C18_Witness ==
    /\ lastOp.op = "NewDatabase" /\ ops = 0 /\ fg.pc = "idle" /\ loop.pc = "recv"
    /\ curMem.name \in walDir /\ FileSize(curMem.wal.file) = 0
    /\ sstableDir = <<>>

(***************************************************************************)
(* The skip list on its own: upserts of any keys in any order, with any    *)
(* level randomLevel can draw up to MaxSkipLvl.                            *)
(***************************************************************************)
SkipUpsert(key, value, lvl) ==
    /\ sl' = upsert(sl, key, value, lvl)
    /\ upserted' = [upserted EXCEPT ![key] = value]
    /\ lastFound' = (search(sl, key) # NilNode)
    /\ UNCHANGED <<dbVars, walVars, idxVars, durVars, dumpVars, sizeVars>>

SkipNext ==
    \E key \in MoreKeys, value \in Values, lvl \in 0..MaxSkipLvl :
        SkipUpsert(key, value, lvl)

SkipSpec == Init /\ [][SkipNext]_vars

\* the nodes reached from node by the forward pointers of level, at most
\* fuel of them
RECURSIVE Chain(_, _, _, _)
Chain(s, node, level, fuel) ==
    LET fwd == s.nodes[node].forwardNodeAtLevel
    IN  IF fuel = 0 \/ level \notin DOMAIN fwd THEN <<>>
        ELSE <<fwd[level]>> \o Chain(s, fwd[level], level, fuel - 1)

\* the non-sentinel nodes of level 0, from the head (one more than there
\* are nodes, when the pointers run in a cycle)
Level0 == Chain(sl, head, 0, Len(sl.nodes))

UpsertedKeys == {k \in MoreKeys : ~upserted[k].nil}

\* C19 (skip-list ordering): after any sequence of upserts, with any level
\* draws, the nodes reached from the head by the level-0 forward pointers
\* are in strictly increasing key order and hold each upserted key exactly
\* once.
C19_Level0Ordered ==
    /\ \A i, j \in DOMAIN Level0 :
          i < j => StrLess(sl.nodes[Level0[i]].key, sl.nodes[Level0[j]].key)
    /\ \A i, j \in DOMAIN Level0 : i # j => Level0[i] # Level0[j]
    /\ head \notin {Level0[i] : i \in DOMAIN Level0}
    /\ {sl.nodes[Level0[i]].key : i \in DOMAIN Level0} = UpsertedKeys
    /\ Len(Level0) = Cardinality(UpsertedKeys)

\* four keys upserted in a shuffled order (b, a, c, ab), with a level draw
\* that grew the list twice
C19_Witness ==
    /\ Len(sl.nodes) = 5 /\ sl.height = 5
    /\ sl.nodes[2].key = KeyB /\ sl.nodes[3].key = KeyA
    /\ sl.nodes[4].key = KeyC /\ sl.nodes[5].key = KeyAB
    /\ Level0 = <<3, 5, 2, 4>>

\* C20 (the skip list as a map): after any sequence of upserts, with any
\* level draws, search(k) returns a node with key k and the value of the
\* last upsert of k when k was upserted, and nil when k was never upserted.
C20_SearchIsLastUpsert ==
    \A k \in MoreKeys :
        LET n == search(sl, k)
        IN  IF upserted[k].nil
            THEN n = NilNode
            ELSE /\ n \in DOMAIN sl.nodes /\ n # head
                 /\ sl.nodes[n].key = k
                 /\ sl.nodes[n].value = upserted[k]

\* a list of several levels that holds ab and c: search finds both, and
\* finds neither a, which sorts before them, nor b, which sorts between
C20_Witness ==
    /\ sl.height = 5 /\ Len(sl.nodes) = 3
    /\ UpsertedKeys = {KeyAB, KeyC}
    /\ sl.nodes[2].key = KeyC /\ sl.nodes[3].key = KeyAB
    /\ search(sl, KeyC) = 2 /\ search(sl, KeyAB) = 3
    /\ sl.nodes[2].value = ValueV /\ sl.nodes[3].value = EmptyValue
    /\ search(sl, KeyA) = NilNode /\ search(sl, KeyB) = NilNode

\* C21 (upsert of an existing key): an upsert of a key the skip list holds
\* overwrites the value of its node in place: search returns the same node
\* as before, now with the new value; no node is added, so no second node
\* with that key is linked at any level; size and every link are unchanged.
C21_UpsertInPlace ==
    [][/\ \A k \in MoreKeys :
             (search(sl, k) # NilNode /\ upserted'[k] # upserted[k]) =>
                 /\ search(sl', k) = search(sl, k)
                 /\ sl'.nodes[search(sl, k)].value = upserted'[k]
                 /\ sl' = [sl EXCEPT !.nodes[search(sl, k)].value = upserted'[k]]
                 /\ sl'.size = sl.size
                 /\ Cardinality({i \in DOMAIN sl'.nodes : sl'.nodes[i].key = k}) = 1
       /\ (lastFound' /\ upserted' = upserted) => sl' = sl]_vars

\* the last upsert was of a key the list held: a list of several levels
\* and three keys with different values
C21_Witness ==
    /\ lastFound
    /\ sl.size = 3 /\ Len(sl.nodes) = 4 /\ sl.height > 1
    /\ \E j, k \in UpsertedKeys : upserted[j] # upserted[k]

\* the records GetAll returns for a memtable with the skip list sl
AllRecords == GetAll([s |-> sl])

\* C22 (size counter): after any sequence of upserts, size is the number
\* of non-sentinel nodes of level 0 and the number of distinct keys
\* upserted, so the size-long result of GetAll has one record per key in
\* every slot.
C22_SizeCounter ==
    /\ sl.size = Len(Level0)
    /\ sl.size = Cardinality(UpsertedKeys)
    /\ Len(AllRecords) = sl.size
    /\ {AllRecords[i].Key : i \in DOMAIN AllRecords} = UpsertedKeys
    /\ \A i \in DOMAIN AllRecords : AllRecords[i].Value = upserted[AllRecords[i].Key]

\* four keys are in a list grown twice, and the last upsert was of a key
\* the list held
C22_Witness ==
    /\ sl.size = 4 /\ Len(AllRecords) = 4 /\ sl.height = 5
    /\ lastFound

\* the offset in file f at which its segment i starts
SegStart(f, i) == FileSize(SubSeq(f, 1, i - 1))

\* the reuse buffers passed for a payload of n bytes: nil, shorter than n,
\* of length n, longer than n
ReuseBufs(n) == {NilBuf, Buf(0), Buf(n), Buf(n + 1)}

\* C23 (framing round trip): ReadDataWithVarintPrefix applied to the bytes
\* WriteDataWithVarintSizePrefix(payload) wrote returns exactly payload, a
\* slice of len(payload) bytes, whatever reuse buffer is passed.
C23_FramingRoundTrip ==
    \A i \in DOMAIN wal.file :
        Complete(wal.file[i]) =>
            \A b \in ReuseBufs(BlobLen(wal.file[i].raw)) :
                ReadDataWithVarintPrefix(wal.file, SegStart(wal.file, i), b)
                    = [buf |-> wal.file[i].raw, err |-> "nil"]

\* C24 (short source): ReadDataWithVarintPrefix returns an error and no
\* data when the source ends within the varint length or delivers fewer
\* payload bytes than the length says; it never returns success with a
\* buffer only partly filled from the source.
C24_ShortSourceFails ==
    \A i \in DOMAIN wal.file :
        (wal.file[i].framed /\ ~Complete(wal.file[i])) =>
            \A b \in ReuseBufs(BlobLen(wal.file[i].raw)) :
                LET r == ReadDataWithVarintPrefix(wal.file, SegStart(wal.file, i), b)
                IN  r.err # "nil" /\ r.buf = NilBuf

\* the SSTable file of the frozen memtable f is completely written
Flushed(f) == f.sst # 0 /\ Sealed(sstableDir[f.sst].file)

\* the last n frozen memtables, oldest first
LastFrozen(n) == [i \in 1..n |-> frozen[Len(frozen) - n + i].mem]

\* C25 (frozen memtables stay readable): whenever the foreground thread
\* can run Get, the queue of memtables awaiting flush holds every memtable
\* that was handed off and whose SSTable is not completely written, oldest
\* first and newest last; a memtable is out of the queue only when its
\* Dump succeeded.
C25_FrozenStayQueued ==
    CanGet =>
        \E n \in 0..Len(frozen) :
            /\ memtablesToCompact = LastFrozen(n)
            /\ \A i \in 1..(Len(frozen) - n) : Flushed(frozen[i])

(***************************************************************************)
(* memtableCompactService.  The database hands its full memtable to the    *)
(* service with enqueue, where src/db.go sends it on its own channel, and  *)
(* Get reads getQueuedTables: memtablesToCompact is the queue of the       *)
(* service.  enqueue sends first and appends to the queue afterwards; the  *)
(* loop of start pops the queue after serializeMemtable.  The statements   *)
(* on the queue are taken as atomic steps of the two threads.              *)
(***************************************************************************)
\* enqueue: the send on mcs.c meets the receive of start
McsSend ==
    /\ Running /\ fg.pc = "send" /\ loop.pc = "recv"
    /\ loop' = [pc |-> "create", mem |-> curMem, w |-> NoWriter]
    /\ frozen' = Append(frozen, [mem |-> curMem, sst |-> 0])
    /\ fg' = [fg EXCEPT !.pc = "append"]
    /\ UNCHANGED <<curMem, memtablesToCompact, sstableDir, walDir, made, ops, faults,
                   lastOp, latest>>
    /\ UNCHANGED <<walVars, skipVars, idxVars, durVars, dumpVars, sizeVars>>

\* enqueue: mcs.queue = append(mcs.queue, mem), and enqueue returns
McsAppend ==
    /\ Running /\ fg.pc = "append"
    /\ memtablesToCompact' = Append(memtablesToCompact, curMem)
    /\ fg' = [fg EXCEPT !.pc = "install"]
    /\ UNCHANGED <<curMem, sstableDir, walDir, loop, made, ops, faults, lastOp,
                   latest, frozen>>
    /\ UNCHANGED <<walVars, skipVars, idxVars, durVars, dumpVars, sizeVars>>

\* Write installs a new memtable after the handoff and returns
McsInstall ==
    /\ Running /\ fg.pc = "install"
    /\ curMem' = NewBasicMemTable(made + 1)
    /\ walDir' = walDir \cup {made + 1}
    /\ made' = made + 1
    /\ fg' = [pc |-> "idle", key |-> <<>>, value |-> NilBytes]
    /\ lastOp' = [op |-> "Write", n |-> ops, key |-> fg.key, value |-> fg.value,
                  err |-> NoError]
    /\ UNCHANGED <<memtablesToCompact, sstableDir, loop, ops, faults, latest, frozen>>
    /\ UNCHANGED <<walVars, skipVars, idxVars, durVars, dumpVars, sizeVars>>

\* start: mcs.queue = mcs.queue[1:] after serializeMemtable returned nil;
\* the slice expression panics on an empty queue, which ends the process
McsPop ==
    /\ Running /\ loop.pc = "delete"
    /\ IF memtablesToCompact = <<>>
       THEN /\ loop' = [loop EXCEPT !.pc = "panic"]
            /\ fg' = [fg EXCEPT !.pc = "panic"]
            /\ UNCHANGED memtablesToCompact
       ELSE /\ memtablesToCompact' = Tail(memtablesToCompact)
            /\ loop' = [loop EXCEPT !.pc = "wal"]
            /\ UNCHANGED fg
    /\ UNCHANGED <<curMem, sstableDir, walDir, made, ops, faults, lastOp, latest,
                   frozen>>
    /\ UNCHANGED <<walVars, skipVars, idxVars, durVars, dumpVars, sizeVars>>

\* start: mem.Wal().Delete(); a failure is logged as a warning
McsDeleteWal ==
    /\ Running /\ loop.pc = "wal"
    /\ \E err \in {"nil"} \cup (IF faults < MaxFaults THEN {"EBUSY"} ELSE {}) :
          /\ walDir' = BasicWal_Delete(walDir, loop.mem.name, err)
          /\ faults' = IF err = "nil" THEN faults ELSE faults + 1
    /\ loop' = [pc |-> "recv", mem |-> NoMem, w |-> NoWriter]
    /\ UNCHANGED <<curMem, memtablesToCompact, sstableDir, fg, made, ops,
                   lastOp, latest, frozen>>
    /\ UNCHANGED <<walVars, skipVars, idxVars, durVars, dumpVars, sizeVars>>

McsNext ==
    \/ \E key \in Keys, value \in Values : Write(key, value)
    \/ McsSend
    \/ McsAppend
    \/ McsInstall
    \/ \E key \in Keys : Delete(key)
    \/ LoopCreate
    \/ LoopPlaceholder
    \/ LoopBlock
    \/ LoopHeader
    \/ LoopIndex
    \/ McsPop
    \/ McsDeleteWal
    \/ LoopFatal

McsSpec == Init /\ [][McsNext]_vars

\* serializeMemtable has returned nil and the loop is about to pop
AboutToPop == Running /\ loop.pc = "delete"

\* C26 (the pop is safe under every interleaving): whenever the loop pops
\* the queue after a dump, the queue is not empty (the slice expression
\* does not panic) and its first element is the memtable just dumped,
\* whatever the foreground thread has done of enqueue by then.
C26_PopIsSafe ==
    AboutToPop =>
        /\ memtablesToCompact # <<>>
        /\ Head(memtablesToCompact) = loop.mem

(***************************************************************************)
(* Database.Get as a function of the queue it reads.  The queue is an      *)
(* input here: it is filled with memtables in the order they would be      *)
(* frozen, each holding the writes made to it while it was current.        *)
(***************************************************************************)
\* one more memtable, newest last
ProbeEnqueue ==
    /\ Len(memtablesToCompact) < MaxQueued
    /\ memtablesToCompact' =
          Append(memtablesToCompact, NewBasicMemTable(Len(memtablesToCompact) + 2))
    /\ UNCHANGED <<curMem, sstableDir, walDir, loop, fg, made, ops, faults, lastOp,
                   latest, frozen>>
    /\ UNCHANGED <<walVars, skipVars, idxVars, durVars, dumpVars, sizeVars>>

\* a successful Write into the newest memtable of the queue
ProbeWrite(key, value) ==
    /\ memtablesToCompact # <<>> /\ ops < MaxOps
    /\ LET n == Len(memtablesToCompact)
           m == memtablesToCompact[n]
           io == AppendOk(m.wal, keyValueToWalLogBytes(key, value))
       IN  memtablesToCompact' =
              [memtablesToCompact EXCEPT ![n] = SkipListMemTable_Write(m, key, value, io, 0).mem]
    /\ ops' = ops + 1
    /\ UNCHANGED <<curMem, sstableDir, walDir, loop, fg, made, faults, lastOp,
                   latest, frozen>>
    /\ UNCHANGED <<walVars, skipVars, idxVars, durVars, dumpVars, sizeVars>>

ProbeNext ==
    \/ ProbeEnqueue
    \/ \E key \in Keys, value \in Values : ProbeWrite(key, value)

ProbeSpec == Init /\ [][ProbeNext]_vars

\* the queued memtables that hold key
Holders(key) ==
    {i \in DOMAIN memtablesToCompact :
        ~SkipListMemTable_Get(memtablesToCompact[i], key).nil}

Listing == getAllSSTableFileMetadata(sstableDir)

FgStep ==
    \/ \E key \in Keys, value \in Values : Write(key, value)
    \/ WriteSend
    \/ \E key \in Keys : Delete(key)

LoopStep ==
    \/ LoopCreate
    \/ LoopPlaceholder
    \/ LoopBlock
    \/ LoopHeader
    \/ LoopIndex
    \/ LoopDeleteWal

LiveNext ==
    \/ FgStep /\ faults' = faults
    \/ LoopStep /\ faults' = faults

\* The runs without I/O error in which the compaction loop is scheduled
\* fairly: a step of the loop that stays possible is taken, and so is the
\* handoff when the writer is blocked in the send and the loop is at its
\* receive.
LiveSpec ==
    /\ Init /\ [][LiveNext]_vars
    /\ WF_vars(WriteSend /\ faults' = faults)
    /\ WF_vars(LoopStep /\ faults' = faults)

\* the n-th memtable handed off is in its one complete SSTable file and
\* its WAL file is deleted
Retired(n) ==
    /\ n \in DOMAIN frozen
    /\ frozen[n].sst = n /\ Flushed(frozen[n])
    /\ frozen[n].mem.name \notin walDir

\* C29 (flush liveness): with the loop scheduled fairly and no I/O error,
\* every memtable handed off is eventually dumped into its SSTable file and
\* its WAL then deleted, and every Write blocked in the handoff eventually
\* returns.
C29_FlushLiveness ==
    /\ \A n \in 1..MaxOps : (Len(frozen) >= n) ~> Retired(n)
    /\ (fg.pc = "send") ~> (fg.pc = "idle")

\* two handoffs were made without any I/O error, both memtables are
\* retired and the writer has returned
C29_Witness ==
    /\ faults = 0 /\ Len(frozen) = 2
    /\ Retired(1) /\ Retired(2)
    /\ fg.pc = "idle" /\ loop.pc = "recv"
    /\ lastOp.op = "Write" /\ lastOp.err = NoError

\* the names of the memtables handed to the compaction loop so far
Handed == {frozen[i].mem.name : i \in DOMAIN frozen}

\* the records of the data blocks of the SSTable file f, in file order
RECURSIVE FileRecords(_, _)
FileRecords(f, i) ==
    IF i >= Len(f) THEN <<>> ELSE f[i].raw.body.body \o FileRecords(f, i + 1)

\* the records of memtable m as Dump puts them on the wire
WireRecords(m) ==
    LET records == GetAll(m)
    IN  [j \in DOMAIN records |-> [Key |-> records[j].Key, Value |-> records[j].Value.b]]

\* C30 (frozen memtable is read-only): unless the process has panicked, the
\* memtable Write and Delete work on is never one that was handed to the
\* compaction loop (its name, the name of its WAL file, is new), so a step of
\* Write or Delete changes the skip list, the byte count and the WAL of the
\* installed memtable only and leaves the memtable the loop holds as it was;
\* the records Dump reads, and the records of the finished SSTable file, are
\* those the memtable held at the handoff.
C30_FrozenReadOnly ==
    /\ [](/\ fg.pc # "panic" => curMem.name \notin Handed
          /\ curMem.name \in walDir
          /\ loop.pc \in {"create", "placeholder", "blocks", "index", "delete"} =>
                loop.mem = frozen[Len(frozen)].mem
          /\ loop.pc \in {"placeholder", "blocks", "index", "delete"} =>
                loop.w.records = GetAll(frozen[Len(frozen)].mem)
          /\ \A i \in DOMAIN frozen :
                Flushed(frozen[i]) =>
                    FileRecords(sstableDir[frozen[i].sst].file, 2) = WireRecords(frozen[i].mem))
    /\ [][ops' # ops =>
              /\ curMem'.name = curMem.name
              /\ loop' = loop
              /\ frozen' = frozen]_vars

\* a Delete and a Write went to the new memtable and its WAL while the loop
\* was writing the blocks of the memtable handed off before them
C30_Witness ==
    /\ Len(frozen) = 1 /\ loop.pc = "blocks" /\ loop.w.next > 1
    /\ lastOp.op = "Write" /\ lastOp.err = NoError /\ lastOp.n = ops
    /\ curMem.s.size = 2 /\ curMem.TotalSizeBytes > 0 /\ Len(curMem.wal.file) = 2
    /\ loop.w.records = GetAll(frozen[1].mem)
    /\ \E k \in Keys : /\ SkipListMemTable_Get(curMem, k) = tombstoneVal
                       /\ SkipListMemTable_Get(frozen[1].mem, k) \notin {NilBytes, tombstoneVal}

(***************************************************************************)
(* Stable storage.  newSSTableFile opens the SSTable file without O_SYNC   *)
(* and Dump never calls Sync, so what the loop writes is in the page cache *)
(* until the operating system writes it back, at a time of its choosing.   *)
(* The WAL file is opened with O_SYNC: its writes are on the device when   *)
(* they return.                                                            *)
(***************************************************************************)
\* the operating system writes the i-th SSTable file back to the device
Writeback(i) ==
    /\ i \in DOMAIN sstableDir /\ stable[i] # sstableDir[i].file
    /\ stable' = [stable EXCEPT ![i] = sstableDir[i].file]
    /\ UNCHANGED <<dbVars, walVars, skipVars, idxVars, dumpVars, sizeVars>>

DurNext ==
    \/ FgStep /\ faults' = faults
    \/ LoopStep /\ faults' = faults
    \/ \E i \in 1..MaxOps : Writeback(i)

DurSpec == Init /\ [][DurNext]_vars

\* C31 (crash durability of a flush): whenever the WAL file of a handed-off
\* memtable is gone, its SSTable file is complete and all of it is on the
\* device, so a crash that drops the page cache loses no acknowledged write.
C31_WalDeletedAfterSync ==
    \A n \in DOMAIN frozen :
        frozen[n].mem.name \notin walDir =>
            /\ Flushed(frozen[n])
            /\ stable[frozen[n].sst] = sstableDir[frozen[n].sst].file

\* the handed-off memtables whose WAL deletion step has run
WalRetired ==
    {n \in DOMAIN frozen : n < Len(frozen) \/ loop.pc = "recv"}

RECURSIVE ReplayFrom(_, _, _)
ReplayFrom(s, f, i) ==
    IF i > Len(f) THEN s
    ELSE IF ~Complete(f[i]) THEN ReplayFrom(s, f, i + 1)
    ELSE LET kv == f[i].raw.body.Data.body
         IN  ReplayFrom(upsert(s, kv.Key, Bytes(kv.Value), 0), f, i + 1)

\* the keys and the bytes of the values of a skip list, in key order
KeyValues(s) ==
    LET records == GetAll([s |-> s])
    IN  [j \in DOMAIN records |-> [Key |-> records[j].Key, Value |-> records[j].Value.b]]

\* the memtables there are: the current one and those handed off
Memtables == {curMem} \cup {frozen[n].mem : n \in DOMAIN frozen}

\* C33 (write-ahead refinement): for the current memtable and every
\* handed-off memtable, replaying the complete records of its WAL, in file
\* order, as upserts into an empty skip list gives the keys and values
\* (tombstones included) its skip list holds; every key of the skip list
\* has a complete WAL record and every complete WAL record has its key in
\* the skip list.
C33_WalRefinement ==
    \A m \in Memtables :
        /\ KeyValues(ReplayFrom(newSkipList, m.wal.file, 1)) = KeyValues(m.s)
        /\ \A k \in Keys :
              (search(m.s, k) # NilNode) <=>
                  \E i \in DOMAIN m.wal.file :
                      Complete(m.wal.file[i]) /\ m.wal.file[i].raw.body.Data.body.Key = k

\* the current memtable went through a failed Write that left bytes in the
\* WAL file, a Write and a Delete of the same key: the replay ends with the
\* tombstone
C33_Witness ==
    /\ Len(curMem.wal.file) = 3 /\ ~Complete(curMem.wal.file[1])
    /\ Complete(curMem.wal.file[2]) /\ Complete(curMem.wal.file[3])
    /\ curMem.s.size = 1
    /\ \E k \in Keys : SkipListMemTable_Get(curMem, k) = tombstoneVal
    /\ lastOp.op = "Delete" /\ lastOp.err = NoError

(***************************************************************************)
(* Dump on its own: a skip list built by upserts of any keys, dumped with  *)
(* any block size from 1 to MaxBlockSize; every system call succeeds.      *)
(***************************************************************************)
DumpSkipList(BlockSize) ==
    /\ dumped' = [done |-> TRUE, s |-> sl,
                  w |-> Dump(NewBasicSSTableWriter(BlockSize, [s |-> sl]))]
    /\ UNCHANGED <<dbVars, walVars, skipVars, idxVars, durVars, sizeVars>>

\* an upsert into the skip list; the writer of an earlier Dump is dropped
DumpUpsert(key, value, lvl) ==
    /\ sl' = upsert(sl, key, value, lvl)
    /\ upserted' = [upserted EXCEPT ![key] = value]
    /\ lastFound' = (search(sl, key) # NilNode)
    /\ dumped' = [done |-> FALSE, s |-> newSkipList, w |-> NoWriter]
    /\ UNCHANGED <<dbVars, walVars, idxVars, durVars, sizeVars>>

DumpNext ==
    \/ \E key \in MoreKeys, value \in Values, lvl \in randomLevel :
          DumpUpsert(key, value, lvl)
    \/ \E BlockSize \in 1..MaxBlockSize : DumpSkipList(BlockSize)

DumpSpec == Init /\ [][DumpNext]_vars

\* the data length the header of file f holds
HeaderDataLen(f) == f[1].raw.body

\* the sum of the sizes of index entries
RECURSIVE SumSizes(_)
SumSizes(entries) ==
    IF entries = <<>> THEN 0 ELSE entries[1].size + SumSizes(Tail(entries))

\* C34 (SSTable layout): when Dump has returned nil, the first index entry
\* has offset 10, every further entry starts where the one before ends, the
\* sizes add up to the data length in the header, each entry is the place
\* and the length of a framed block of the file, and the framed index
\* starts at offset 10 + data length, where loadIndexFromFile reads it; for
\* an empty memtable the header holds 0 and the index has no entry.
C34_Layout ==
    dumped.done =>
        LET f == dumped.w.file
            entries == dumped.w.idx.entries
        IN  /\ f[1].raw.kind = "sizeBuf" /\ f[1].written = MaxVarintLen64
            /\ entries # <<>> => entries[1].offset = 10
            /\ \A i \in 2..Len(entries) :
                  entries[i].offset = entries[i - 1].offset + entries[i - 1].size
            /\ \A i \in DOMAIN entries :
                  /\ SegAt(f, entries[i].offset) = i + 1
                  /\ entries[i].size = SegLen(f[i + 1].raw, TRUE)
            /\ SumSizes(entries) = HeaderDataLen(f)
            /\ SegAt(f, 10 + HeaderDataLen(f)) = Len(f)
            /\ f[Len(f)].raw.kind = "SSTableIndex" /\ f[Len(f)].framed
            /\ Len(f) = Len(entries) + 2
            /\ loadIndexFromFile(f) = [idx |-> dumped.w.idx, err |-> "nil"]
            /\ GetAll([s |-> dumped.s]) = <<>> => (HeaderDataLen(f) = 0 /\ entries = <<>>)

\* a memtable of three records was dumped into two blocks
C34_Witness ==
    /\ dumped.done /\ dumped.s.size = 3
    /\ Len(dumped.w.idx.entries) = 2
    /\ dumped.w.idx.entries[2].offset > 10
    /\ HeaderDataLen(dumped.w.file) > 0

\* the blocks of the dumped file, each the sequence of its records
DumpedBlocks ==
    [i \in 1..(Len(dumped.w.file) - 2) |-> dumped.w.file[i + 1].raw.body.body]

\* len(key) + len(value) summed over the first n records of a block
RECURSIVE AccSize(_, _)
AccSize(block, n) ==
    IF n = 0 THEN 0
    ELSE AccSize(block, n - 1) + Len(block[n].Key) + Len(block[n].Value)

\* C35 (block partitioning): the blocks Dump writes, one after the other,
\* are the records of the memtable in strictly ascending key order, each
\* record once; no block is empty; a block is closed by the first record
\* with which its accumulated len(key) + len(value) reaches the block size,
\* so only the last block can stay below it; the index entry of a block
\* carries its first and its last key, and the entries' ranges are strictly
\* increasing and do not overlap.
C35_BlockPartitioning ==
    dumped.done =>
        LET blocks == DumpedBlocks
            entries == dumped.w.idx.entries
            records == FileRecords(dumped.w.file, 2)
        IN  /\ records = WireRecords([s |-> dumped.s])
            /\ \A i, j \in DOMAIN records : i < j => StrLess(records[i].Key, records[j].Key)
            /\ Len(entries) = Len(blocks)
            /\ \A i \in DOMAIN blocks :
                  /\ blocks[i] # <<>>
                  /\ AccSize(blocks[i], Len(blocks[i]) - 1) < dumped.w.BlockSize
                  /\ i < Len(blocks) => AccSize(blocks[i], Len(blocks[i])) >= dumped.w.BlockSize
                  /\ entries[i].startKey = blocks[i][1].Key
                  /\ entries[i].endKey = blocks[i][Len(blocks[i])].Key
                  /\ StrLeq(entries[i].startKey, entries[i].endKey)
            /\ \A i \in 1..(Len(entries) - 1) :
                  StrLess(entries[i].endKey, entries[i + 1].startKey)

\* four records were dumped with block size 3: a block of two records that
\* reaches the size with its second record, and a last block below it
C35_Witness ==
    /\ dumped.done /\ dumped.w.BlockSize = 3 /\ dumped.s.size = 4
    /\ \E i \in DOMAIN DumpedBlocks :
          /\ i < Len(DumpedBlocks)
          /\ Len(DumpedBlocks[i]) = 2
          /\ AccSize(DumpedBlocks[i], 2) >= 3
    /\ AccSize(DumpedBlocks[Len(DumpedBlocks)], Len(DumpedBlocks[Len(DumpedBlocks)])) < 3

\* the entry update is called with (the size is that of IndexUpdate)
NewEntry(startKey, endKey, offset) ==
    [startKey |-> startKey, endKey |-> endKey, offset |-> offset, size |-> 11]

LevelChain(l) == Chain(sl, head, l, Len(sl.nodes))

\* the set of the nodes of level l
LevelNodes(l) == {LevelChain(l)[i] : i \in DOMAIN LevelChain(l)}

\* C37 (downward presence): after any sequence of upserts and level draws,
\* every node linked at a level above 0 is linked at every level below it,
\* every node that has a forward pointer at a level is linked at that
\* level, and the nodes of each level are in strictly increasing key order.
C37_DownwardPresence ==
    /\ \A l \in 1..(sl.height - 1) : LevelNodes(l) \subseteq LevelNodes(l - 1)
    /\ \A l \in 0..(sl.height - 1) :
          /\ head \notin LevelNodes(l)
          /\ \A i, j \in DOMAIN LevelChain(l) :
                i < j => StrLess(sl.nodes[LevelChain(l)[i]].key, sl.nodes[LevelChain(l)[j]].key)
    /\ \A n \in DOMAIN sl.nodes :
          \A l \in DOMAIN sl.nodes[n].forwardNodeAtLevel :
              l < sl.height /\ (n = head \/ n \in LevelNodes(l))

\* a list of five levels and four keys in which the levels thin out: four
\* nodes at level 0, three at level 1, one at the top
C37_Witness ==
    /\ sl.height = 5
    /\ Len(LevelChain(0)) = 4 /\ Len(LevelChain(1)) = 3 /\ Len(LevelChain(2)) = 2
    /\ Len(LevelChain(4)) = 1

\* C38 (skip-list growth): an upsert that inserts a new node with a level
\* drawn at or above the height raises the height by exactly one and links
\* the new node at every level from 0 to the new top level; no upsert
\* raises the height by more than one; an upsert of a key the list holds
\* leaves the height as it is.
C38_GrowsByOne ==
    [][/\ sl'.height <= sl.height + 1
       /\ \A key \in MoreKeys, value \in Values, lvl \in 0..MaxSkipLvl :
             SkipUpsert(key, value, lvl) =>
                 IF search(sl, key) # NilNode THEN sl'.height = sl.height
                 ELSE lvl >= sl.height =>
                          /\ sl'.height = sl.height + 1
                          /\ \A l \in 0..(sl'.height - 1) :
                                \E i \in DOMAIN Chain(sl', head, l, Len(sl'.nodes)) :
                                    Chain(sl', head, l, Len(sl'.nodes))[i] = Len(sl'.nodes)]_vars

(***************************************************************************)
(* The flush threshold on its own: a database configured with any         *)
(* MemtableSizeByte of Settings, and the part of Database.Write that the   *)
(* foreground thread runs; the handoff is taken at once.                   *)
(***************************************************************************)
\* the values of MemtableSizeByte (a uint) the database is configured with
Settings == {1, 3, Uint32Modulus, Uint32Modulus + 3}

\* NewDatabase(ConfigMemtableSizeByte(size))
SizeNewDatabase(size) ==
    /\ ops = 0
    /\ setting' = size
    /\ UNCHANGED <<sum, flushedAt>>
    /\ UNCHANGED <<dbVars, walVars, skipVars, idxVars, durVars, dumpVars>>

\* Database.Write(key, value) of a database configured with setting
SizeWrite(key, value) ==
    /\ ops < MaxOps
    /\ \E io \in Outcomes(curMem.wal, keyValueToWalLogBytes(key, value)) :
       \E lvl \in randomLevel :
          LET r == SkipListMemTable_Write(curMem, key, value, io, lvl)
              written == IF r.err = NoError THEN sum + Len(key) + BytesLen(value) ELSE sum
              send == r.err = NoError /\ SizeBytes(r.mem) >= Uint32(setting)
          IN  /\ curMem' = IF send THEN NewBasicMemTable(made + 1) ELSE r.mem
              /\ made' = IF send THEN made + 1 ELSE made
              /\ walDir' = IF send THEN walDir \cup {made + 1} ELSE walDir
              /\ frozen' = IF send THEN Append(frozen, [mem |-> r.mem, sst |-> 0]) ELSE frozen
              /\ sum' = IF send THEN 0 ELSE written
              /\ flushedAt' = IF send THEN Append(flushedAt, written) ELSE flushedAt
              /\ faults' = IF Failed(io) THEN faults + 1 ELSE faults
              /\ lastOp' = [op |-> "Write", n |-> ops + 1, key |-> key, value |-> value,
                            err |-> r.err]
    /\ ops' = ops + 1
    /\ UNCHANGED <<memtablesToCompact, sstableDir, loop, fg, latest, setting>>
    /\ UNCHANGED <<walVars, skipVars, idxVars, durVars, dumpVars>>

SizeNext ==
    \/ \E size \in Settings : SizeNewDatabase(size)
    \/ \E key \in Keys, value \in Values : SizeWrite(key, value)

SizeSpec == Init /\ [][SizeNext]_vars

\* C39 (size accounting): TotalSizeBytes of the current memtable is the sum
\* of len(key) + len(value) over the successful Writes on it, overwrites
\* counted again; a failed Write leaves it unchanged; and the memtable is
\* handed off exactly when that sum is at or above the configured
\* MemtableSizeByte: between operations the sum is below the setting, and
\* every handoff happened at a sum at or above it.
C39_SizeAccounting ==
    /\ [](/\ curMem.TotalSizeBytes = sum
          /\ sum < setting
          /\ \A i \in DOMAIN flushedAt : flushedAt[i] >= setting
          /\ \A i \in DOMAIN frozen : frozen[i].mem.TotalSizeBytes = flushedAt[i])
    /\ [][(ops' # ops /\ lastOp'.err # NoError) =>
              /\ curMem'.TotalSizeBytes = curMem.TotalSizeBytes
              /\ sum' = sum /\ flushedAt' = flushedAt]_vars

\* the keys search can be called with: the keys upserted and the empty string
SearchKeys == MoreKeys \cup {<<>>}

\* C40 (search never returns the sentinel): for every key, the empty string
\* included, search returns nil or a node other than the head that is linked
\* at level 0; for a key never upserted it returns nil, so the value of the
\* sentinel is never reported; for an upserted key it returns the node with
\* that key and the value of its last upsert.
C40_SearchNeverSentinel ==
    \A key \in SearchKeys :
        LET n == search(sl, key)
            isUpserted == key \in MoreKeys /\ ~upserted[key].nil
        IN  /\ n # head
            /\ n # NilNode => n \in LevelNodes(0)
            /\ ~isUpserted => n = NilNode
            /\ isUpserted => /\ n # NilNode
                             /\ sl.nodes[n].key = key
                             /\ sl.nodes[n].value = upserted[key]

====
